---- MODULE Spec2Model ----
(***************************************************************************)
(* Model of xc7/fasm2bels/verilog_modeling.py: the Bel / Site / Module     *)
(* data model, Site.__init__, Site.integrate_site, Module.add_site,        *)
(* Site.remove_bel / remove_internal_sink, Module.remove_bel /             *)
(* remove_sink, Module.set_iostandard and the top level ports,             *)
(* Module.make_routes with the cleanup functions of the Sites,             *)
(* output_nets and the emission methods, and the make_bus helper.          *)
(***************************************************************************)
EXTENDS Integers, Sequences, FiniteSets, TLC

VARIABLES
    busIn,      \* make_bus: the argument `wires`, a list of wire strings
    busOut,     \* make_bus: what iterating the generator produced
    featIn,     \* Site.__init__: the arguments `features` and `tile`
    featOut,    \* Site.__init__: the Site it built, or that it raised
    bel,        \* the Bel objects: connections, outputs, prefix, site
    site,       \* the Site objects: bels, sinks, sources, outputs, ...
    module,     \* the Module object
    calls,      \* number of Site mutator calls the run may still make
    op,         \* the call made by the last step and whether it raised
    ret,        \* what the last call returned
    log         \* the calls Module.make_routes made to its collaborators

busVars == <<busIn, busOut>>

featVars == <<featIn, featOut>>

mainVars == <<bel, site, module, calls, op, ret, log>>

vars == <<busIn, busOut, featIn, featOut, bel, site, module, calls, op, ret, log>>

(***************************************************************************)
(* Python values                                                           *)
(***************************************************************************)
\* Python's None
None == "None"

\* the largest / smallest element of a non-empty set of integers
SetMax(S) == CHOOSE x \in S : \A y \in S : y <= x

SetMin(S) == CHOOSE x \in S : \A y \in S : x <= y

\* the elements of a sequence
Range(s) == { s[i] : i \in 1..Len(s) }

(***************************************************************************)
(* make_bus (lines 686-720).  A wire string is a sequence of characters.   *)
(***************************************************************************)
\* ord() of the characters that occur in the modelled wire strings
Ord(c) ==
    CASE c = "0" -> 48 [] c = "1" -> 49 [] c = "2" -> 50 [] c = "3" -> 51
      [] c = "A" -> 65 [] c = "B" -> 66 [] c = "[" -> 91 [] c = "]" -> 93

Digits == {"0", "1", "2", "3"}

\* str.find(c): the 0-based index of the first occurrence, -1 when absent
Find(w, c) ==
    IF \E i \in 1..Len(w) : w[i] = c
    THEN SetMin({ i \in 1..Len(w) : w[i] = c }) - 1
    ELSE -1

\* the slice w[a:b] for 0 <= a, with b already resolved to a 0-based bound
Slice(w, a, b) == IF b <= a THEN <<>> ELSE SubSeq(w, a + 1, b)

\* int(s) accepts a non-empty run of decimal digits (of the modelled alphabet)
IntOk(s) == Len(s) > 0 /\ \A i \in 1..Len(s) : s[i] \in Digits

RECURSIVE IntOf(_)
IntOf(s) ==
    IF Len(s) = 0 THEN 0
    ELSE 10 * IntOf(SubSeq(s, 1, Len(s) - 1)) + (Ord(s[Len(s)]) - 48)

\* Python's order on strings: lexicographic on the code points
StrLess(a, b) ==
    \/ /\ Len(a) < Len(b)
       /\ \A i \in 1..Len(a) : a[i] = b[i]
    \/ \E k \in 1..Len(a) :
          /\ k <= Len(b)
          /\ \A i \in 1..(k - 1) : a[i] = b[i]
          /\ Ord(a[k]) < Ord(b[k])

\* sorted(S) for a set of strings
RECURSIVE SortedNames(_)
SortedNames(S) ==
    IF S = {} THEN <<>>
    ELSE LET m == CHOOSE x \in S : \A y \in S \ {x} : StrLess(x, y)
         IN  <<m>> \o SortedNames(S \ {m})

\* the bound None of an un-indexed name (line 711), kept apart from every index
NoBound == 0 - 1

\* the first loop (lines 700-711): st = [raised, output, buses]; `output` maps
\* a name to its bound, `buses` maps a bus name to the list of its indices
BusScanStep(st, w) ==
    LET idx == Find(w, "[") IN
    IF st.raised THEN st
    ELSE IF idx /= -1
    THEN IF w[Len(w)] /= "]" \/ ~IntOk(Slice(w, idx + 1, Len(w) - 1))
         THEN [st EXCEPT !.raised = TRUE]
         ELSE LET bus == Slice(w, 0, idx)
                  n   == IntOf(Slice(w, idx + 1, Len(w) - 1))
                  old == IF bus \in DOMAIN st.buses THEN st.buses[bus] ELSE <<>>
              IN  [st EXCEPT !.buses =
                      [b \in (DOMAIN st.buses) \cup {bus} |->
                          IF b = bus THEN Append(old, n) ELSE st.buses[b]]]
    ELSE [st EXCEPT !.output =
             [n \in (DOMAIN st.output) \cup {w} |->
                 IF n = w THEN NoBound ELSE st.output[n]]]

RECURSIVE BusScan(_, _)
BusScan(st, ws) ==
    IF Len(ws) = 0 THEN st ELSE BusScan(BusScanStep(st, Head(ws)), Tail(ws))

\* the three assertions of the second loop (lines 714-716)
BusWellFormed(values) ==
    /\ SetMin(Range(values)) = 0
    /\ SetMax(Range(values)) = Len(values) - 1
    /\ Len(values) = Cardinality(Range(values))

\* faulty variant: the bus is given its number of entries
BusBound_Len(values) == Len(values)

\* the value stored for a bus (line 717)
BusBound(values) == SetMax(Range(values))

\* make_bus(wires), iterated to the end: [raised, out]; out is the list of the
\* (name, bound) pairs yielded
make_bus(wires) ==
    LET st  == BusScan([raised |-> FALSE, output |-> <<>>, buses |-> <<>>], wires)
        bad == st.raised \/ \E b \in DOMAIN st.buses : ~BusWellFormed(st.buses[b])
        output == [n \in (DOMAIN st.output) \cup (DOMAIN st.buses) |->
                      IF n \in DOMAIN st.buses THEN BusBound(st.buses[n]) ELSE NoBound]
        names == SortedNames(DOMAIN output)
    IN  IF bad THEN [raised |-> TRUE, out |-> <<>>]
        ELSE [raised |-> FALSE,
              out |-> [i \in 1..Len(names) |-> <<names[i], output[names[i]]>>]]

\* the wire strings the bus inputs are drawn from
WireA == <<"A">>

WireB == <<"B">>

BusWire(n, i) == n \o <<"[", i, "]">>

WireStrings ==
    { WireA, WireB, BusWire(WireA, "0"), BusWire(WireA, "1"), BusWire(WireA, "2"),
      BusWire(WireB, "0"), <<"A", "[", "0">> }

\* the longest list of wires handed to make_bus
MaxBusWires == 3

SeqsUpTo(S, n) == UNION { [1..k -> S] : k \in 0..n }

NotRun == [raised |-> FALSE, out |-> <<>>, run |-> FALSE]

BusInit ==
    /\ busIn \in SeqsUpTo(WireStrings, MaxBusWires)
    /\ busOut = NotRun

\* list(make_bus(busIn))
MakeBusCall ==
    /\ ~busOut.run
    /\ LET r == make_bus(busIn)
       IN  busOut' = [raised |-> r.raised, out |-> r.out, run |-> TRUE]
    /\ UNCHANGED busIn

BusNext == MakeBusCall /\ UNCHANGED <<mainVars, featVars>>

(***************************************************************************)
(* Site.__init__ (lines 242-271).  A feature name is a sequence of         *)
(* characters; a feature is a record [feature, value].                     *)
(***************************************************************************)
\* str.split('.'): the list of the pieces between the dots
RECURSIVE Split(_)
Split(w) ==
    LET idx == Find(w, ".")
    IN  IF idx = -1 THEN <<w>>
        ELSE <<Slice(w, 0, idx)>> \o Split(Slice(w, idx + 1, Len(w)))

\* '.'.join(parts)
RECURSIVE Join(_)
Join(parts) ==
    IF Len(parts) = 0 THEN <<>>
    ELSE IF Len(parts) = 1 THEN parts[1]
    ELSE parts[1] \o <<".">> \o Join(Tail(parts))

\* parts[2:]
From2(parts) == IF Len(parts) <= 2 THEN <<>> ELSE SubSeq(parts, 3, Len(parts))

\* the test of line 257
Skipped(f) == f.value = 0

\* one iteration of the loop of lines 256-262; st = [raised, set_features]
FeatureStep(st, aparts, f) ==
    IF st.raised \/ Skipped(f) THEN st
    ELSE LET parts == Split(f.feature)
         IN  IF parts[1] /= aparts[1] THEN [st EXCEPT !.raised = TRUE]
             ELSE IF Len(parts) < 2 \/ Len(aparts) < 2
             THEN [st EXCEPT !.raised = TRUE]
             ELSE IF parts[2] /= aparts[2] THEN [st EXCEPT !.raised = TRUE]
             ELSE [st EXCEPT !.set_features = @ \cup {Join(From2(parts))}]

RECURSIVE FeatureLoop(_, _, _)
FeatureLoop(st, aparts, fs) ==
    IF Len(fs) = 0 THEN st
    ELSE FeatureLoop(FeatureStep(st, aparts, Head(fs)), aparts, Tail(fs))

\* Site(features, site, tile): [raised, set_features, tile]; features[0] of an
\* empty list raises
SiteNew(features, tile) ==
    IF Len(features) = 0
    THEN [raised |-> TRUE, set_features |-> {}, tile |-> <<>>]
    ELSE LET aparts == Split(features[1].feature)
             st == FeatureLoop([raised |-> FALSE, set_features |-> {}],
                               aparts, features)
         IN  IF st.raised
             THEN [raised |-> TRUE, set_features |-> {}, tile |-> <<>>]
             ELSE [raised |-> FALSE, set_features |-> st.set_features,
                   tile |-> IF tile.given THEN tile.name ELSE aparts[1]]

\* Site.has_feature (lines 273-275)
has_feature(st, feature) == feature \in st.set_features

\* the feature names the batches are drawn from: two features of site T.S, one
\* of another tile, one of another site, one with a dotted suffix, one with no
\* site part
FeatureNames ==
    { <<"T", ".", "S", ".", "A">>, <<"T", ".", "S", ".", "B">>,
      <<"U", ".", "S", ".", "A">>, <<"T", ".", "R", ".", "A">>,
      <<"T", ".", "S", ".", "A", ".", "B">>, <<"T">> }

FeatureValues == {0, 1}

Features == [feature : FeatureNames, value : FeatureValues]

\* the argument tile: left at its default None, or given
TileArgs == { [given |-> FALSE, name |-> <<>>], [given |-> TRUE, name |-> <<"U">>] }

\* the longest feature batch handed to Site.__init__
MaxFeatures == 3

NotBuilt == [raised |-> FALSE, set_features |-> {}, tile |-> <<>>, run |-> FALSE]

FeatIdle == featIn = [features |-> <<>>, tile |-> [given |-> FALSE, name |-> <<>>]]
               /\ featOut = NotBuilt

FeatInit ==
    /\ featIn \in [features : SeqsUpTo(Features, MaxFeatures), tile : TileArgs]
    /\ featOut = NotBuilt

\* Site(featIn.features, site, featIn.tile)
SiteNewCall ==
    /\ ~featOut.run
    /\ LET r == SiteNew(featIn.features, featIn.tile)
       IN  featOut' = [raised |-> r.raised, set_features |-> r.set_features,
                       tile |-> r.tile, run |-> TRUE]
    /\ UNCHANGED featIn

FeatNext == SiteNewCall /\ UNCHANGED <<mainVars, busVars>>

(***************************************************************************)
(* Python dicts keep insertion order: a dict is a sequence of <<key, value>>*)
(***************************************************************************)
DKeys(d) == { d[i][1] : i \in 1..Len(d) }

DHas(d, k) == k \in DKeys(d)

DGet(d, k) == d[CHOOSE i \in 1..Len(d) : d[i][1] = k][2]

\* d[k] = v
DPut(d, k, v) ==
    IF DHas(d, k)
    THEN [i \in 1..Len(d) |-> IF d[i][1] = k THEN <<k, v>> ELSE d[i]]
    ELSE Append(d, <<k, v>>)

\* del d[k]
DDel(d, k) == SelectSeq(d, LAMBDA e : e[1] /= k)

\* the list of keys, in iteration order
DKeySeq(d) == [i \in 1..Len(d) |-> d[i][1]]

\* del l[i] for a list (i is 1-based here)
ListDel(l, i) == SubSeq(l, 1, i - 1) \o SubSeq(l, i + 1, Len(l))

(***************************************************************************)
(* The objects and names the calls are drawn from                          *)
(***************************************************************************)
Bels == {"b1", "b2", "b3"}

\* bel pin names (bel_pin): the input pin and the output pin of a primitive
Pins == {"I", "O"}

InPins == {"I"}

OutPins == {"O"}

\* site-local wire names; they share Python's str with the pin names
Wires == {"O", "X", "Y"}

\* the names the caller passes as sink / source / internal wire
SinkNames == {"O", "Y"}

SourceNames == {"O", "Y"}

InternalNames == {"X", "Y"}

Sites == {"s1", "s2"}

\* the Bel objects the caller wires into each Site
SiteBelChoices(s) == IF s = "s1" THEN {"b1", "b2"} ELSE {"b3"}

\* Site.tile and Site.site.name: two Site objects built for one physical site
SiteTile(s) == "T"

SiteName(s) == "SA"

\* the names of Site.site.site_pins: "X" is no site pin
SitePinNames(s) == {"O", "Y"}

\* site_pin.wire: the tile wire of a site pin (make_site_pin_map, lines 661-669)
make_site_pin_map(s, w) == SiteName(s) \o "_" \o w

\* get_wire_pkey(conn, tile, wire): injective per (tile, wire)
get_wire_pkey(tile, wire) == tile \o "/" \o wire

\* bel.connections has no entry for the pin
NoConn == "~"

\* the most Site mutator calls (add_bel and the wiring calls) of one run
MaxCalls == 6

\* the same, in the runs that go on to routing and emission
MaxRouteCalls == 3

\* the same, in the runs that set cleanup functions
MaxCleanupCalls == 4

\* the same, in the runs that release single Bel pins
MaxSinkCalls == 4

\* the same, in the runs that write connections by hand
MaxConnCalls == 3

\* the most Sites a Module is given
MaxSites == 2

(***************************************************************************)
(* Construction: Bel.__init__ (38-64), Site.__init__ (242-271),            *)
(* Module.__init__ (726-760)                                               *)
(***************************************************************************)
BelInit ==
    [connections |-> [p \in Pins |-> NoConn],
     outputs     |-> {},
     prefix      |-> None,
     site        |-> None]

SiteInit ==
    [bels                   |-> <<>>,
     sinks                  |-> <<>>,
     sources                |-> <<>>,
     outputs                |-> <<>>,
     internal_sources       |-> <<>>,
     site_wire_to_wire_pkey |-> <<>>,
     post_route_cleanup     |-> None]

ModuleInit ==
    [sites             |-> <<>>,
     source_bels       |-> <<>>,
     shorted_nets      |-> <<>>,
     wire_pkey_to_wire |-> <<>>,
     unrouted_sinks    |-> {},
     unrouted_sources  |-> {},
     root_in           |-> {},
     root_out          |-> {},
     root_inout        |-> {},
     wires             |-> {},
     wire_assigns      |-> <<>>,
     has_nets          |-> FALSE,
     nets              |-> {},
     alive             |-> {},
     iostandard        |-> None,
     site_to_signal    |-> <<>>]

NoOp == [name |-> "init", site |-> "-", bel |-> "-", pin |-> "-", wire |-> "-",
         raised |-> FALSE]

NoRet == [sinks |-> <<>>, sources |-> <<>>]

Call(name, s, b, pin, wire, raised) ==
    [name |-> name, site |-> s, bel |-> b, pin |-> pin, wire |-> wire,
     raised |-> raised]

\* the label of a Site mutator call that returned
Done(s) == Call("mutator", s, "-", "-", "-", FALSE)

Constructed ==
    /\ bel = [b \in Bels |-> BelInit]
    /\ site = [s \in Sites |-> SiteInit]
    /\ module = ModuleInit
    /\ op = NoOp
    /\ ret = NoRet
    /\ log = <<>>

\* every failure is fatal: nothing is called after a call has raised
Running == ~op.raised

\* a Site is wired before it is handed to Module.add_site, one Site at a time
InModule(s) == \E i \in 1..Len(module.sites) : module.sites[i] = s

Building(s) ==
    /\ ~InModule(s)
    /\ s = "s2" => InModule("s1")

MayCall(s) == Running /\ calls > 0 /\ Building(s)

Connected(b, pin) == bel[b].connections[pin] /= NoConn

SetConn(b, pin, w) == [bel EXCEPT ![b].connections[pin] = w]

(***************************************************************************)
(* Site mutators                                                           *)
(***************************************************************************)
\* Site.add_bel (lines 390-406), name=None
add_bel(s, b) ==
    /\ MayCall(s)
    /\ b \notin Range(site[s].bels)
    /\ site' = [site EXCEPT ![s].bels = Append(@, b)]
    /\ calls' = calls - 1
    /\ op' = Done(s)
    /\ ret' = NoRet
    /\ UNCHANGED <<bel, module, busVars, featVars, log>>

\* Site.add_sink (lines 277-298)
add_sink(s, b, pin, sink) ==
    /\ MayCall(s)
    /\ ret' = NoRet
    /\ UNCHANGED <<module, busVars, featVars, log>>
    /\ IF Connected(b, pin)
       THEN /\ op' = Call("add_sink", s, b, pin, sink, TRUE)
            /\ UNCHANGED <<bel, site, calls>>
       ELSE /\ op' = Done(s)
            /\ calls' = calls - 1
            /\ bel' = SetConn(b, pin, sink)
            /\ LET old == IF DHas(site[s].sinks, sink)
                          THEN DGet(site[s].sinks, sink) ELSE <<>>
               IN  site' = [site EXCEPT ![s].sinks =
                                DPut(@, sink, Append(old, <<b, pin>>))]

\* faulty variant: the source name is not checked for an earlier driver
add_source_NameUnchecked(s, b, pin, source) ==
    /\ MayCall(s)
    /\ ret' = NoRet
    /\ UNCHANGED <<module, busVars, featVars, log>>
    /\ IF Connected(b, pin)
       THEN /\ op' = Call("add_source", s, b, pin, source, TRUE)
            /\ UNCHANGED <<bel, site, calls>>
       ELSE /\ op' = Done(s)
            /\ calls' = calls - 1
            /\ bel' = [bel EXCEPT ![b].connections[pin] = source,
                                  ![b].outputs = @ \cup {pin}]
            /\ site' = [site EXCEPT ![s].sources = DPut(@, source, <<b, pin>>)]

\* Site.add_source (lines 300-319)
add_source(s, b, pin, source) ==
    /\ MayCall(s)
    /\ ret' = NoRet
    /\ UNCHANGED <<module, busVars, featVars, log>>
    /\ IF DHas(site[s].sources, source) \/ Connected(b, pin)
       THEN /\ op' = Call("add_source", s, b, pin, source, TRUE)
            /\ UNCHANGED <<bel, site, calls>>
       ELSE /\ op' = Done(s)
            /\ calls' = calls - 1
            /\ bel' = [bel EXCEPT ![b].connections[pin] = source,
                                  ![b].outputs = @ \cup {pin}]
            /\ site' = [site EXCEPT ![s].sources = DPut(@, source, <<b, pin>>)]

\* Site.add_output_from_internal (lines 321-337)
add_output_from_internal(s, source, internal_source) ==
    /\ MayCall(s)
    /\ ret' = NoRet
    /\ UNCHANGED <<bel, module, busVars, featVars, log>>
    /\ IF DHas(site[s].sources, source)
          \/ ~DHas(site[s].internal_sources, internal_source)
       THEN /\ op' = Call("add_output_from_internal", s, "-", "-", source, TRUE)
            /\ UNCHANGED <<site, calls>>
       ELSE /\ op' = Done(s)
            /\ calls' = calls - 1
            /\ site' = [site EXCEPT
                  ![s].outputs = DPut(@, source, internal_source),
                  ![s].sources =
                      DPut(@, source, DGet(site[s].internal_sources, internal_source))]

\* Site.add_output_from_output (lines 339-353)
add_output_from_output(s, source, other_source) ==
    /\ MayCall(s)
    /\ ret' = NoRet
    /\ UNCHANGED <<bel, module, busVars, featVars, log>>
    /\ IF DHas(site[s].sources, source) \/ ~DHas(site[s].sources, other_source)
       THEN /\ op' = Call("add_output_from_output", s, "-", "-", source, TRUE)
            /\ UNCHANGED <<site, calls>>
       ELSE /\ op' = Done(s)
            /\ calls' = calls - 1
            /\ site' = [site EXCEPT ![s].outputs = DPut(@, source, other_source)]

\* Site.add_internal_source (lines 355-373): the pin is connected and marked
\* as an output before the name is checked
add_internal_source(s, b, pin, wire_name) ==
    /\ MayCall(s)
    /\ ret' = NoRet
    /\ UNCHANGED <<module, busVars, featVars, log>>
    /\ bel' = [bel EXCEPT ![b].connections[pin] = wire_name,
                          ![b].outputs = @ \cup {pin}]
    /\ IF DHas(site[s].internal_sources, wire_name)
       THEN /\ op' = Call("add_internal_source", s, b, pin, wire_name, TRUE)
            /\ UNCHANGED <<site, calls>>
       ELSE /\ op' = Done(s)
            /\ calls' = calls - 1
            /\ site' = [site EXCEPT
                  ![s].internal_sources = DPut(@, wire_name, <<b, pin>>)]

\* Site.connect_internal (lines 375-388)
connect_internal(s, b, pin, source) ==
    /\ MayCall(s)
    /\ ret' = NoRet
    /\ UNCHANGED <<site, module, busVars, featVars, log>>
    /\ IF ~DHas(site[s].internal_sources, source) \/ Connected(b, pin)
       THEN /\ op' = Call("connect_internal", s, b, pin, source, TRUE)
            /\ UNCHANGED <<bel, calls>>
       ELSE /\ op' = Done(s)
            /\ calls' = calls - 1
            /\ bel' = SetConn(b, pin, source)

(***************************************************************************)
(* Site.check_site and Site.integrate_site                                 *)
(***************************************************************************)
\* Module.is_top_level (lines 851-853)
is_top_level(m, wire) ==
    wire \in m.root_in \/ wire \in m.root_out \/ wire \in m.root_inout

\* the values 0 and 1 of a constant connection
Const0 == "<0>"

Const1 == "<1>"

\* what a caller writes into bel.connections (line 56) itself: a constant, a
\* site wire name or a top level port name
ConnTargets == {Const0, Const1, "O", "X", "T_SA_PAD"}

\* the assignment bel.connections[pin] = wire on the dict made in line 56
set_connection(s, b, pin, wire) ==
    /\ MayCall(s)
    /\ bel' = SetConn(b, pin, wire)
    /\ calls' = calls - 1
    /\ op' = Call("set_connection", s, b, pin, wire, FALSE)
    /\ ret' = NoRet
    /\ UNCHANGED <<site, module, busVars, featVars, log>>

\* Site.check_site (lines 521-548), for the Site record st: TRUE when no
\* assertion fails
check_site(st) ==
    LET internal_sources == DKeys(st.internal_sources)
        sinks   == DKeys(st.sinks)
        sources == DKeys(st.sources)
        bel_ids == Range(st.bels)
    IN  /\ internal_sources \cap sinks = {}
        /\ internal_sources \cap sources = {}
        /\ \A i \in 1..Len(st.sources) : st.sources[i][2][1] \in bel_ids
        /\ \A i \in 1..Len(st.sinks) :
              \A j \in 1..Len(st.sinks[i][2]) : st.sinks[i][2][j][1] \in bel_ids
        /\ \A i \in 1..Len(st.internal_sources) :
              st.internal_sources[i][2][1] \in bel_ids

\* faulty variant: the connection targets are not looked at
BelConnectionsOk_Any(st, m, b) == TRUE

\* the sanity check of one Bel's connections (lines 437-444)
BelConnectionsOk(st, m, b) ==
    \A pin \in Pins :
        LET wire == bel[b].connections[pin] IN
        \/ wire = NoConn
        \/ wire = Const0 \/ wire = Const1
        \/ DHas(st.sinks, wire)
        \/ DHas(st.sources, wire)
        \/ DHas(st.internal_sources, wire)
        \/ is_top_level(m, wire)

\* the position in st.bels of the first Bel whose check fails, 0 when none does
FirstBadBel(st, m) ==
    LET bad == { i \in 1..Len(st.bels) : ~BelConnectionsOk(st, m, st.bels[i]) }
    IN  IF bad = {} THEN 0 ELSE SetMin(bad)

\* lines 458 and 469, `wire is module.is_top_level(wire)`: a str is never the
\* bool that is_top_level returns
WireIsTopLevelResult(m, wire) == FALSE

\* the prefix of line 428
SitePrefix(s) == SiteTile(s) \o "_" \o SiteName(s)

PrefixWire(s, wire) == SitePrefix(s) \o "_" \o wire

\* the wire_pkey of the site pin `wire` (lines 463, 474, 497-502)
SitePinPkey(s, wire) == get_wire_pkey(SiteTile(s), make_site_pin_map(s, wire))

\* what integrate_site has built so far; raised: a site_pin_map lookup or a
\* set.remove raised KeyError
IntegrateStart(s, st) ==
    [raised            |-> FALSE,
     wires             |-> { PrefixWire(s, w) : w \in DKeys(st.internal_sources) },
     unrouted_sinks    |-> {},
     unrouted_sources  |-> {},
     wire_pkey_to_wire |-> <<>>,
     source_bels       |-> <<>>,
     wire_assigns      |-> <<>>,
     shorted_nets      |-> <<>>,
     site_wire_to_wire_pkey |-> st.site_wire_to_wire_pkey]

\* one iteration of the loop over self.sinks (lines 457-466)
IntegrateSink(s, m, acc, wire) ==
    IF acc.raised \/ WireIsTopLevelResult(m, wire) THEN acc
    ELSE IF wire \notin SitePinNames(s) THEN [acc EXCEPT !.raised = TRUE]
    ELSE LET wire_pkey == SitePinPkey(s, wire) IN
         [acc EXCEPT
            !.wires = @ \cup {PrefixWire(s, wire)},
            !.wire_pkey_to_wire = DPut(@, wire_pkey, PrefixWire(s, wire)),
            !.site_wire_to_wire_pkey = DPut(@, wire, wire_pkey),
            !.unrouted_sinks = @ \cup {wire_pkey}]

\* faulty variant: the driver of the source is not recorded
IntegrateSource_NoDriver(s, m, acc, wire, source_bel) ==
    IF acc.raised \/ WireIsTopLevelResult(m, wire) THEN acc
    ELSE IF wire \notin SitePinNames(s) THEN [acc EXCEPT !.raised = TRUE]
    ELSE LET wire_pkey == SitePinPkey(s, wire) IN
         [acc EXCEPT
            !.wires = @ \cup {PrefixWire(s, wire)},
            !.wire_pkey_to_wire = DPut(@, wire_pkey, PrefixWire(s, wire)),
            !.site_wire_to_wire_pkey = DPut(@, wire, wire_pkey),
            !.unrouted_sources = @ \cup {wire_pkey}]

\* one iteration of the loop over self.sources (lines 468-482)
IntegrateSource(s, m, acc, wire, source_bel) ==
    IF acc.raised \/ WireIsTopLevelResult(m, wire) THEN acc
    ELSE IF wire \notin SitePinNames(s) THEN [acc EXCEPT !.raised = TRUE]
    ELSE LET wire_pkey == SitePinPkey(s, wire) IN
         [acc EXCEPT
            !.wires = @ \cup {PrefixWire(s, wire)},
            !.wire_pkey_to_wire = DPut(@, wire_pkey, PrefixWire(s, wire)),
            !.site_wire_to_wire_pkey = DPut(@, wire, wire_pkey),
            !.unrouted_sources = @ \cup {wire_pkey},
            !.source_bels = DPut(@, wire_pkey, source_bel)]

\* the test of line 503
IsShort(acc, sink_wire_pkey) == sink_wire_pkey \in acc.unrouted_sinks

\* faulty variant: the short is decided on the output wire instead of the mirrored wire
IntegrateOutput_ByOutputWire(s, acc, source_wire, sink_wire) ==
    IF acc.raised THEN acc
    ELSE LET a1 == [acc EXCEPT
                      !.wires = @ \cup {PrefixWire(s, source_wire)},
                      !.wire_assigns = DPut(@, PrefixWire(s, source_wire),
                                               PrefixWire(s, sink_wire))]
             source_wire_pkey == SitePinPkey(s, source_wire)
         IN  IF source_wire \notin SitePinNames(s) THEN a1
             ELSE IF source_wire_pkey \notin a1.unrouted_sinks THEN a1
             ELSE [a1 EXCEPT
                     !.shorted_nets = DPut(@, source_wire_pkey, source_wire_pkey),
                     !.unrouted_sources = @ \ {source_wire_pkey},
                     !.unrouted_sinks = @ \ {source_wire_pkey}]

\* one iteration of the loop over self.outputs (lines 486-509)
IntegrateOutput(s, acc, source_wire, sink_wire) ==
    IF acc.raised THEN acc
    ELSE LET a1 == [acc EXCEPT
                      !.wires = @ \cup {PrefixWire(s, source_wire)},
                      !.wire_assigns = DPut(@, PrefixWire(s, source_wire),
                                               PrefixWire(s, sink_wire))]
             sink_wire_pkey   == SitePinPkey(s, sink_wire)
             source_wire_pkey == SitePinPkey(s, source_wire)
         IN  IF sink_wire \notin SitePinNames(s) THEN a1
             ELSE IF source_wire \notin SitePinNames(s)
             THEN [a1 EXCEPT !.raised = TRUE]
             ELSE IF ~IsShort(a1, sink_wire_pkey) THEN a1
             ELSE IF source_wire_pkey \notin a1.unrouted_sources
                     \/ sink_wire_pkey \notin a1.unrouted_sinks
             THEN [a1 EXCEPT !.raised = TRUE]
             ELSE [a1 EXCEPT
                     !.shorted_nets = DPut(@, source_wire_pkey, sink_wire_pkey),
                     !.unrouted_sources = @ \ {source_wire_pkey},
                     !.unrouted_sinks = @ \ {sink_wire_pkey}]

RECURSIVE IntegrateSinks(_, _, _, _)
IntegrateSinks(s, m, acc, d) ==
    IF Len(d) = 0 THEN acc
    ELSE IntegrateSinks(s, m, IntegrateSink(s, m, acc, Head(d)[1]), Tail(d))

RECURSIVE IntegrateSources(_, _, _, _)
IntegrateSources(s, m, acc, d) ==
    IF Len(d) = 0 THEN acc
    ELSE IntegrateSources(s, m,
             IntegrateSource(s, m, acc, Head(d)[1], Head(d)[2]), Tail(d))

RECURSIVE IntegrateOutputs(_, _, _)
IntegrateOutputs(s, acc, d) ==
    IF Len(d) = 0 THEN acc
    ELSE IntegrateOutputs(s, IntegrateOutput(s, acc, Head(d)[1], Head(d)[2]), Tail(d))

\* the Bels that set_prefix / set_site have reached (lines 433-435) when the
\* sanity loop stops at position `bad` (0: it ran to the end)
PrefixedBels(st, bad) ==
    { st.bels[i] : i \in 1..(IF bad = 0 THEN Len(st.bels) ELSE bad) }

\* Site.integrate_site (lines 420-519) on Site s for Module record m:
\* [raised, bel, site_wire_to_wire_pkey, result]
integrate_site(s, m) ==
    LET st  == site[s]
        bad == FirstBadBel(st, m)
        belP == [b \in Bels |->
                    IF b \in PrefixedBels(st, bad)
                    THEN [bel[b] EXCEPT !.prefix = SitePrefix(s), !.site = SiteName(s)]
                    ELSE bel[b]]
        acc == IntegrateOutputs(s,
                   IntegrateSources(s, m,
                       IntegrateSinks(s, m, IntegrateStart(s, st), st.sinks),
                       st.sources),
                   st.outputs)
    IN  IF ~check_site(st)
        THEN [raised |-> TRUE, bel |-> bel,
              site_wire_to_wire_pkey |-> st.site_wire_to_wire_pkey, result |-> acc]
        ELSE IF bad /= 0
        THEN [raised |-> TRUE, bel |-> belP,
              site_wire_to_wire_pkey |-> st.site_wire_to_wire_pkey, result |-> acc]
        ELSE [raised |-> acc.raised, bel |-> belP,
              site_wire_to_wire_pkey |-> acc.site_wire_to_wire_pkey, result |-> acc]

(***************************************************************************)
(* Module.add_site                                                         *)
(***************************************************************************)
\* faulty variant: sets are united without the disjointness assertion
SetsCollide_Never(set_a, set_b) == FALSE

\* the assertion of merge_exclusive_sets (line 674) fails
SetsCollide(set_a, set_b) == set_a \cap set_b /= {}

\* the assertion of merge_exclusive_dicts (line 681) fails
DictsCollide(dict_a, dict_b) == DKeys(dict_a) \cap DKeys(dict_b) /= {}

\* dict_a.update(dict_b) (line 683)
RECURSIVE DUpdate(_, _)
DUpdate(dict_a, dict_b) ==
    IF Len(dict_b) = 0 THEN dict_a
    ELSE DUpdate(DPut(dict_a, Head(dict_b)[1], Head(dict_b)[2]), Tail(dict_b))

\* the first of the seven merges of add_site (lines 859-876) whose assertion
\* fails, 8 when all pass
FirstCollision(m, r) ==
    IF SetsCollide(m.wires, r.wires) THEN 1
    ELSE IF SetsCollide(m.unrouted_sinks, r.unrouted_sinks) THEN 2
    ELSE IF SetsCollide(m.unrouted_sources, r.unrouted_sources) THEN 3
    ELSE IF DictsCollide(m.wire_pkey_to_wire, r.wire_pkey_to_wire) THEN 4
    ELSE IF DictsCollide(m.source_bels, r.source_bels) THEN 5
    ELSE IF DictsCollide(m.wire_assigns, r.wire_assigns) THEN 6
    ELSE IF DictsCollide(m.shorted_nets, r.shorted_nets) THEN 7
    ELSE 8

\* faulty variant: the identities of the Site are not entered in
\* wire_pkey_to_wire
MergedUpTo_NoIdentities(m, r, s, k) ==
    [m EXCEPT
        !.wires             = IF k > 1 THEN @ \cup r.wires ELSE @,
        !.unrouted_sinks    = IF k > 2 THEN @ \cup r.unrouted_sinks ELSE @,
        !.unrouted_sources  = IF k > 3 THEN @ \cup r.unrouted_sources ELSE @,
        !.source_bels       = IF k > 5 THEN DUpdate(@, r.source_bels) ELSE @,
        !.wire_assigns      = IF k > 6 THEN DUpdate(@, r.wire_assigns) ELSE @,
        !.shorted_nets      = IF k > 7 THEN DUpdate(@, r.shorted_nets) ELSE @,
        !.sites             = IF k > 7 THEN Append(@, s) ELSE @]

\* the Module after the merges that ran before merge number k raised
MergedUpTo(m, r, s, k) ==
    [m EXCEPT
        !.wires             = IF k > 1 THEN @ \cup r.wires ELSE @,
        !.unrouted_sinks    = IF k > 2 THEN @ \cup r.unrouted_sinks ELSE @,
        !.unrouted_sources  = IF k > 3 THEN @ \cup r.unrouted_sources ELSE @,
        !.wire_pkey_to_wire = IF k > 4 THEN DUpdate(@, r.wire_pkey_to_wire) ELSE @,
        !.source_bels       = IF k > 5 THEN DUpdate(@, r.source_bels) ELSE @,
        !.wire_assigns      = IF k > 6 THEN DUpdate(@, r.wire_assigns) ELSE @,
        !.shorted_nets      = IF k > 7 THEN DUpdate(@, r.shorted_nets) ELSE @,
        !.sites             = IF k > 7 THEN Append(@, s) ELSE @]

\* Module.add_site (lines 855-878)
add_site(s) ==
    /\ Running
    /\ ~module.has_nets
    /\ Len(module.sites) < MaxSites
    /\ s = "s2" => InModule("s1")
    /\ LET i == integrate_site(s, module)
           k == FirstCollision(module, i.result)
       IN  /\ bel' = i.bel
           /\ site' = [site EXCEPT ![s].site_wire_to_wire_pkey = i.site_wire_to_wire_pkey]
           /\ IF i.raised
              THEN /\ op' = Call("add_site", s, "-", "-", "-", TRUE)
                   /\ UNCHANGED module
              ELSE /\ op' = Call("add_site", s, "-", "-", "-", k < 8)
                   /\ module' = MergedUpTo(module, i.result, s, k)
    /\ ret' = NoRet
    /\ UNCHANGED <<calls, busVars, featVars, log>>

(***************************************************************************)
(* Site.remove_bel                                                         *)
(***************************************************************************)
\* the assertion of lines 579-584 fails: some other Bel of the Site has a
\* connection whose value is a member of bel_to_remove.outputs (a set of
\* bel pin names)
OutputInUse(st, b) ==
    \E i \in 1..Len(st.bels) :
        /\ st.bels[i] /= b
        /\ \E pin \in Pins :
              /\ bel[st.bels[i]].connections[pin] /= NoConn
              /\ bel[st.bels[i]].connections[pin] \in bel[b].outputs

\* the position of the first consumer entry of Bel b in a sink's list, 0 when
\* it has none (lines 592-596)
FirstUse(bels_using_sink, b) ==
    LET hits == { i \in 1..Len(bels_using_sink) : bels_using_sink[i][1] = b }
    IN  IF hits = {} THEN 0 ELSE SetMin(hits)

\* the loop over self.sinks (lines 591-602) from position i on;
\* acc = [raised, sinks, removed_sinks]
RECURSIVE RemoveFromSinks(_, _, _, _)
RemoveFromSinks(acc, swtp, b, i) ==
    IF acc.raised \/ i > Len(acc.sinks) THEN acc
    ELSE LET sink_wire == acc.sinks[i][1]
             old  == acc.sinks[i][2]
             idx  == FirstUse(old, b)
             left == IF idx = 0 THEN old ELSE ListDel(old, idx)
             a1   == [acc EXCEPT !.sinks[i] = <<sink_wire, left>>]
         IN  IF Len(left) /= 0 THEN RemoveFromSinks(a1, swtp, b, i + 1)
             ELSE IF ~DHas(swtp, sink_wire) THEN [a1 EXCEPT !.raised = TRUE]
             ELSE RemoveFromSinks(
                      [a1 EXCEPT !.removed_sinks = Append(@, DGet(swtp, sink_wire))],
                      swtp, b, i + 1)

\* the source wires driven by Bel b, in dict order (lines 605-610)
SourcesOf(sources, b) == SelectSeq(DKeySeq(sources), LAMBDA w : DGet(sources, w)[1] = b)

\* Site.remove_bel (lines 562-615) on the Site record st:
\* [raised, site, removed_sinks, removed_sources]
site_remove_bel(st, b) ==
    LET bel_idx == FirstUse([i \in 1..Len(st.bels) |-> <<st.bels[i]>>], b)
        st1  == [st EXCEPT !.bels = ListDel(@, bel_idx)]
        sk   == RemoveFromSinks(
                    [raised |-> FALSE, sinks |-> st.sinks, removed_sinks |-> <<>>],
                    st.site_wire_to_wire_pkey, b, 1)
        st2  == [st1 EXCEPT !.sinks = sk.sinks]
        gone == SourcesOf(st.sources, b)
        st3  == [st2 EXCEPT !.sources = SelectSeq(@, LAMBDA e : e[2][1] /= b)]
    IN  IF bel_idx = 0 \/ OutputInUse(st, b)
        THEN [raised |-> TRUE, site |-> st,
              removed_sinks |-> <<>>, removed_sources |-> <<>>]
        ELSE IF sk.raised
                \/ \E i \in 1..Len(gone) : ~DHas(st.site_wire_to_wire_pkey, gone[i])
        THEN [raised |-> TRUE, site |-> st2,
              removed_sinks |-> <<>>, removed_sources |-> <<>>]
        ELSE [raised |-> FALSE, site |-> st3,
              removed_sinks |-> sk.removed_sinks,
              removed_sources |->
                  [i \in 1..Len(gone) |-> DGet(st.site_wire_to_wire_pkey, gone[i])]]

\* a call of Site.remove_bel on Site s
remove_bel(s, b) ==
    /\ Running
    /\ InModule(s)
    /\ \A t \in Sites : InModule(t) \/ site[t] = SiteInit
    /\ LET r == site_remove_bel(site[s], b)
       IN  /\ site' = [site EXCEPT ![s] = r.site]
           /\ op' = Call("remove_bel", s, b, "-", "-", r.raised)
           /\ ret' = [sinks |-> r.removed_sinks, sources |-> r.removed_sources]
    /\ UNCHANGED <<bel, module, calls, busVars, featVars, log>>

(***************************************************************************)
(* Site.find_internal_sink and Site.remove_internal_sink                   *)
(***************************************************************************)
\* Site.find_internal_sink (lines 634-640) for Bel b of Site record st:
\* [raised, sink_wire], sink_wire None when the pin reads an internal source
find_internal_sink(st, b, internal_sink) ==
    LET sink_wire == bel[b].connections[internal_sink] IN
    IF sink_wire = NoConn \/ sink_wire \in bel[b].outputs
    THEN [raised |-> TRUE, sink_wire |-> None]
    ELSE IF DHas(st.internal_sources, sink_wire)
    THEN [raised |-> FALSE, sink_wire |-> None]
    ELSE [raised |-> ~DHas(st.sinks, sink_wire), sink_wire |-> sink_wire]

\* what remove_internal_sink returns
SinkRet(pkey) == [sinks |-> <<>>, sources |-> <<>>, pkey |-> pkey]

\* Site.remove_internal_sink (lines 642-658)
remove_internal_sink(s, b, internal_sink) ==
    /\ Running
    /\ InModule(s)
    /\ \A t \in Sites : InModule(t) \/ site[t] = SiteInit
    /\ LET st == site[s]
           f  == find_internal_sink(st, b, internal_sink)
           users == IF DHas(st.sinks, f.sink_wire) THEN DGet(st.sinks, f.sink_wire)
                    ELSE <<>>
           left  == SelectSeq(users, LAMBDA e : e[1] /= b)
       IN  IF f.raised
           THEN /\ op' = Call("remove_internal_sink", s, b, internal_sink, "-", TRUE)
                /\ ret' = NoRet
                /\ UNCHANGED <<bel, site>>
           ELSE /\ bel' = SetConn(b, internal_sink, None)
                /\ IF f.sink_wire = None
                   THEN /\ op' = Call("remove_internal_sink", s, b, internal_sink, "-", FALSE)
                        /\ ret' = SinkRet(None)
                        /\ UNCHANGED site
                   ELSE IF \E i \in 1..Len(users) :
                              users[i][1] = b /\ users[i][2] /= internal_sink
                   THEN /\ op' = Call("remove_internal_sink", s, b, internal_sink,
                                      f.sink_wire, TRUE)
                        /\ ret' = NoRet
                        /\ UNCHANGED site
                   ELSE IF Len(left) > 0
                   THEN /\ op' = Call("remove_internal_sink", s, b, internal_sink,
                                      f.sink_wire, FALSE)
                        /\ ret' = SinkRet(None)
                        /\ site' = [site EXCEPT ![s].sinks = DPut(@, f.sink_wire, left)]
                   ELSE /\ site' = [site EXCEPT ![s].sinks = DDel(@, f.sink_wire)]
                        /\ IF DHas(st.site_wire_to_wire_pkey, f.sink_wire)
                           THEN /\ op' = Call("remove_internal_sink", s, b, internal_sink,
                                              f.sink_wire, FALSE)
                                /\ ret' = SinkRet(DGet(st.site_wire_to_wire_pkey,
                                                       f.sink_wire))
                           ELSE /\ op' = Call("remove_internal_sink", s, b, internal_sink,
                                              f.sink_wire, TRUE)
                                /\ ret' = NoRet
    /\ UNCHANGED <<module, calls, busVars, featVars, log>>

(***************************************************************************)
(* Module.remove_bel and Module.remove_sink                                *)
(***************************************************************************)
\* the most Site mutator calls of a run that goes on to remove Bels and sinks
MaxRemoveCalls == 6

\* faulty variant: the alias assignment keyed by the sink's wire is kept
RemoveSinkStep_KeepAlias(acc, wire_pkey) ==
    IF acc.raised THEN acc
    ELSE IF wire_pkey \notin acc.m.unrouted_sinks THEN [acc EXCEPT !.raised = TRUE]
    ELSE LET m1 == [acc.m EXCEPT !.unrouted_sinks = @ \ {wire_pkey}] IN
         IF ~DHas(m1.wire_pkey_to_wire, wire_pkey)
         THEN [raised |-> TRUE, m |-> m1]
         ELSE LET sink_wire == DGet(m1.wire_pkey_to_wire, wire_pkey) IN
              IF sink_wire \notin m1.wires THEN [raised |-> TRUE, m |-> m1]
              ELSE [raised |-> FALSE, m |-> [m1 EXCEPT !.wires = @ \ {sink_wire}]]

\* Module.remove_sink (lines 1070-1075) on acc = [raised, m]; set.remove and
\* the dict lookup raise KeyError for a missing element
RemoveSinkStep(acc, wire_pkey) ==
    IF acc.raised THEN acc
    ELSE IF wire_pkey \notin acc.m.unrouted_sinks THEN [acc EXCEPT !.raised = TRUE]
    ELSE LET m1 == [acc.m EXCEPT !.unrouted_sinks = @ \ {wire_pkey}] IN
         IF ~DHas(m1.wire_pkey_to_wire, wire_pkey)
         THEN [raised |-> TRUE, m |-> m1]
         ELSE LET sink_wire == DGet(m1.wire_pkey_to_wire, wire_pkey) IN
              IF sink_wire \notin m1.wires THEN [raised |-> TRUE, m |-> m1]
              ELSE [raised |-> FALSE,
                    m |-> [m1 EXCEPT !.wires = @ \ {sink_wire},
                                     !.wire_assigns = DDel(@, sink_wire)]]

\* some alias assignment has source_wire as its right-hand side (lines 1060-1061)
IsAliasTarget(m, source_wire) ==
    \E i \in 1..Len(m.wire_assigns) : m.wire_assigns[i][2] = source_wire

\* faulty variant: the alias assignments are not searched for the source
RemoveSourceStep_NoAliasCheck(acc, wire_pkey) ==
    IF acc.raised THEN acc
    ELSE IF ~DHas(acc.m.wire_pkey_to_wire, wire_pkey) THEN [acc EXCEPT !.raised = TRUE]
    ELSE IF wire_pkey \notin acc.m.unrouted_sources THEN [acc EXCEPT !.raised = TRUE]
    ELSE LET m1 == [acc.m EXCEPT !.unrouted_sources = @ \ {wire_pkey}] IN
         IF ~DHas(m1.source_bels, wire_pkey) THEN [raised |-> TRUE, m |-> m1]
         ELSE [raised |-> FALSE, m |-> [m1 EXCEPT !.source_bels = DDel(@, wire_pkey)]]

\* one iteration of the loop over removed_sources (lines 1057-1064)
RemoveSourceStep(acc, wire_pkey) ==
    IF acc.raised THEN acc
    ELSE IF ~DHas(acc.m.wire_pkey_to_wire, wire_pkey) THEN [acc EXCEPT !.raised = TRUE]
    ELSE IF IsAliasTarget(acc.m, DGet(acc.m.wire_pkey_to_wire, wire_pkey))
    THEN [acc EXCEPT !.raised = TRUE]
    ELSE IF wire_pkey \notin acc.m.unrouted_sources THEN [acc EXCEPT !.raised = TRUE]
    ELSE LET m1 == [acc.m EXCEPT !.unrouted_sources = @ \ {wire_pkey}] IN
         IF ~DHas(m1.source_bels, wire_pkey) THEN [raised |-> TRUE, m |-> m1]
         ELSE [raised |-> FALSE, m |-> [m1 EXCEPT !.source_bels = DDel(@, wire_pkey)]]

RECURSIVE RemoveSources(_, _)
RemoveSources(acc, pkeys) ==
    IF Len(pkeys) = 0 THEN acc
    ELSE RemoveSources(RemoveSourceStep(acc, Head(pkeys)), Tail(pkeys))

\* the loop over removed_sinks (lines 1067-1068)
RECURSIVE RemoveSinks(_, _)
RemoveSinks(acc, pkeys) ==
    IF Len(pkeys) = 0 THEN acc
    ELSE RemoveSinks(RemoveSinkStep(acc, Head(pkeys)), Tail(pkeys))

\* Module.remove_bel (lines 1047-1068): Site.remove_bel, then the two loops
module_remove_bel(s, b) ==
    /\ Running
    /\ InModule(s)
    /\ \A t \in Sites : InModule(t) \/ site[t] = SiteInit
    /\ LET r   == site_remove_bel(site[s], b)
           acc == RemoveSinks(RemoveSources([raised |-> FALSE, m |-> module],
                                            r.removed_sources),
                              r.removed_sinks)
       IN  /\ site' = [site EXCEPT ![s] = r.site]
           /\ IF r.raised
              THEN /\ op' = Call("Module.remove_bel", s, b, "-", "-", TRUE)
                   /\ UNCHANGED module
              ELSE /\ op' = Call("Module.remove_bel", s, b, "-", "-", acc.raised)
                   /\ module' = acc.m
    /\ ret' = NoRet
    /\ UNCHANGED <<bel, calls, busVars, featVars, log>>

\* the wire identities handed to Module.remove_sink
SinkIds == UNION { { SitePinPkey(s, w) : w \in SitePinNames(s) } : s \in Sites }

\* a call of Module.remove_sink
remove_sink(wire_pkey) ==
    /\ Running
    /\ \A t \in Sites : InModule(t) \/ site[t] = SiteInit
    /\ LET acc == RemoveSinkStep([raised |-> FALSE, m |-> module], wire_pkey)
       IN  /\ op' = Call("remove_sink", "-", "-", "-", wire_pkey, acc.raised)
           /\ module' = acc.m
    /\ ret' = NoRet
    /\ UNCHANGED <<bel, site, calls, busVars, featVars, log>>

(***************************************************************************)
(* Module.set_iostandard, set_site_to_signal and the top level ports       *)
(***************************************************************************)
IoStandards == {"LVCMOS18", "LVCMOS33", "SSTL15"}

\* the longest list of candidate lists, and the longest candidate list
MaxPorts == 2

MaxCandidates == 2

\* the arguments of set_iostandard: a list of lists of IOSTANDARD names
IoCandidates == SeqsUpTo(SeqsUpTo(IoStandards, MaxCandidates), MaxPorts)

\* the loop of lines 771-772 over the lists from position i on
RECURSIVE IntersectFrom(_, _, _)
IntersectFrom(acc, iostandards, i) ==
    IF i > Len(iostandards) THEN acc
    ELSE IntersectFrom(acc \cap Range(iostandards[i]), iostandards, i + 1)

\* faulty variant: only the first port's candidates are read
possible_iostandards_First(iostandards) == Range(iostandards[1])

\* possible_iostandards after the loop (lines 769-772), for a non-empty list
possible_iostandards(iostandards) ==
    IntersectFrom(Range(iostandards[1]), iostandards, 1)

\* Module.set_iostandard (lines 762-780); iostandards[0] of an empty list raises
set_iostandard(iostandards) ==
    /\ Running
    /\ IF Len(iostandards) = 0
       THEN /\ op' = Call("set_iostandard", "-", "-", "-", "-", TRUE)
            /\ UNCHANGED module
       ELSE IF Cardinality(possible_iostandards(iostandards)) /= 1
       THEN /\ op' = Call("set_iostandard", "-", "-", "-", "-", TRUE)
            /\ UNCHANGED module
       ELSE /\ op' = Call("set_iostandard", "-", "-", "-", "-", FALSE)
            /\ module' = [module EXCEPT !.iostandard =
                             CHOOSE v \in possible_iostandards(iostandards) : TRUE]
    /\ ret' = NoRet
    /\ UNCHANGED <<bel, site, calls, busVars, featVars, log>>

\* the tiles, sites and pad names of the top level ports
PortTiles == {"T"}

PortSites == {"SA", "SB"}

PortPads == {"PAD"}

\* the site to signal maps handed to set_site_to_signal
SignalMaps == { <<>>, << <<"SA", "clk">> >> }

\* Module.set_site_to_signal (lines 782-789)
set_site_to_signal(site_to_signal) ==
    /\ Running
    /\ module' = [module EXCEPT !.site_to_signal = site_to_signal]
    /\ op' = Call("set_site_to_signal", "-", "-", "-", "-", FALSE)
    /\ ret' = NoRet
    /\ UNCHANGED <<bel, site, calls, busVars, featVars, log>>

\* faulty variant: the site to signal map is not consulted
check_top_name_NoMap(m, tile, s, name) == tile \o "_" \o s \o "_" \o name

\* Module._check_top_name (lines 791-803)
check_top_name(m, tile, s, name) ==
    IF ~DHas(m.site_to_signal, s)
    THEN tile \o "_" \o s \o "_" \o name
    ELSE DGet(m.site_to_signal, s)

\* what a top level port call returns
PortRet(port) == [sinks |-> <<>>, sources |-> <<>>, port |-> port]

\* Module.add_top_in_port (lines 805-819)
add_top_in_port(tile, s, name) ==
    /\ Running
    /\ LET port == check_top_name(module, tile, s, name)
       IN  IF port \in module.root_in
           THEN /\ op' = Call("add_top_in_port", s, "-", "-", name, TRUE)
                /\ ret' = NoRet
                /\ UNCHANGED module
           ELSE /\ op' = Call("add_top_in_port", s, "-", "-", name, FALSE)
                /\ ret' = PortRet(port)
                /\ module' = [module EXCEPT !.root_in = @ \cup {port}]
    /\ UNCHANGED <<bel, site, calls, busVars, featVars, log>>

\* Module.add_top_out_port (lines 821-834)
add_top_out_port(tile, s, name) ==
    /\ Running
    /\ LET port == check_top_name(module, tile, s, name)
       IN  IF port \in module.root_out
           THEN /\ op' = Call("add_top_out_port", s, "-", "-", name, TRUE)
                /\ ret' = NoRet
                /\ UNCHANGED module
           ELSE /\ op' = Call("add_top_out_port", s, "-", "-", name, FALSE)
                /\ ret' = PortRet(port)
                /\ module' = [module EXCEPT !.root_out = @ \cup {port}]
    /\ UNCHANGED <<bel, site, calls, busVars, featVars, log>>

\* Module.add_top_inout_port (lines 836-849)
add_top_inout_port(tile, s, name) ==
    /\ Running
    /\ LET port == check_top_name(module, tile, s, name)
       IN  IF port \in module.root_inout
           THEN /\ op' = Call("add_top_inout_port", s, "-", "-", name, TRUE)
                /\ ret' = NoRet
                /\ UNCHANGED module
           ELSE /\ op' = Call("add_top_inout_port", s, "-", "-", name, FALSE)
                /\ ret' = PortRet(port)
                /\ module' = [module EXCEPT !.root_inout = @ \cup {port}]
    /\ UNCHANGED <<bel, site, calls, busVars, featVars, log>>

(***************************************************************************)
(* Module.make_routes and Module.output_nets                               *)
(***************************************************************************)
\* the net keys of the two constant rails (imported from make_routes, line 30)
ZERO_NET == "ZERO_NET"

ONE_NET == "ONE_NET"

\* the identity of a wire of the tile that is no site pin: the root of a net
\* the Router realizes without a registered source
OrphanNets == {"T/W"}

\* the nets the Router may realize from the Module's state
NetCandidates(m) == m.unrouted_sources \cup {ZERO_NET, ONE_NET} \cup OrphanNets

\* the driver wire name the Router reports for a net
DriverWire(m, net) ==
    IF net = ZERO_NET THEN Const0
    ELSE IF net = ONE_NET THEN Const1
    ELSE DGet(m.wire_pkey_to_wire, net)

\* the loop body of make_routes (line 903) for the routed sinks, in any order
RECURSIVE FoldRoutes(_, _, _)
FoldRoutes(m, route, todo) ==
    IF todo = {} THEN m
    ELSE LET k == CHOOSE x \in todo : TRUE
         IN  FoldRoutes(
                 [m EXCEPT !.wire_assigns =
                     DPut(@, DGet(m.wire_pkey_to_wire, k), DriverWire(m, route[k]))],
                 route, todo \ {k})

\* the cleanup functions handed to Site.set_post_route_cleanup_function:
\* "keep" returns at once, "drop" calls module.remove_sink for each sink of
\* its Site that is still unrouted
HookFuncs == {"keep", "drop"}

\* Site.set_post_route_cleanup_function (lines 408-418)
set_post_route_cleanup_function(s, func) ==
    /\ MayCall(s)
    /\ site' = [site EXCEPT ![s].post_route_cleanup = func]
    /\ calls' = calls - 1
    /\ op' = Done(s)
    /\ ret' = NoRet
    /\ UNCHANGED <<bel, module, busVars, featVars, log>>

\* what a collaborator sees of the Module when make_routes calls it
Event(ev, s, m) ==
    [ev |-> ev, site |-> s, wire_assigns |-> m.wire_assigns,
     unrouted_sinks |-> m.unrouted_sinks, pairs |-> {}]

\* the unrouted sink identities of Site s, in the order of its sinks
UnroutedSinksOf(m, s) ==
    LET st  == site[s]
        ids == [i \in 1..Len(st.sinks) |->
                   DGet(st.site_wire_to_wire_pkey, st.sinks[i][1])]
    IN  SelectSeq(ids, LAMBDA id : id \in m.unrouted_sinks)

\* the call site.post_route_cleanup(self, site) of line 1032
RunHook(func, m, s) ==
    IF func = "drop"
    THEN RemoveSinks([raised |-> FALSE, m |-> m], UnroutedSinksOf(m, s))
    ELSE [raised |-> FALSE, m |-> m]

\* the loop of lines 1030-1032 from position i of self.sites on
RECURSIVE RunHooks(_, _)
RunHooks(acc, i) ==
    IF acc.raised \/ i > Len(acc.m.sites) THEN acc
    ELSE LET s    == acc.m.sites[i]
             func == site[s].post_route_cleanup
         IN  IF func = None
             THEN RunHooks(acc, i + 1)
             ELSE LET r == RunHook(func, acc.m, s)
                  IN  RunHooks(
                          [raised |-> r.raised, m |-> r.m,
                           log |-> Append(acc.log, Event("hook", s, acc.m))],
                          i + 1)

\* Module.handle_post_route_cleanup (lines 1028-1034) on acc = [raised, m,
\* log]: the cleanup functions, then prune_antennas, after which the nets in
\* `alive` are the live ones
handle_post_route_cleanup(acc, alive) ==
    LET h == RunHooks(acc, 1)
    IN  IF h.raised THEN h
        ELSE [raised |-> FALSE,
              m      |-> [h.m EXCEPT !.alive = alive],
              log    |-> Append(h.log, Event("prune", "-", h.m))]

\* the (sink_wire, src_wire) pairs the Router yields for `route`
RoutedPairs(m, route) ==
    { <<DGet(m.wire_pkey_to_wire, k), DriverWire(m, route[k])>> : k \in DOMAIN route }

\* Module.make_routes (lines 880-905); the Router realizes the nets `nets` and
\* routes the sinks in DOMAIN route, each to one of these nets; `alive` are
\* the nets that is_net_alive reports after prune_antennas
make_routes(allow_orphan_sinks, nets, route, alive) ==
    /\ Running
    /\ ~module.has_nets
    /\ \A s \in Sites : InModule(s) \/ site[s] = SiteInit
    /\ DOMAIN route \subseteq module.unrouted_sinks
    /\ \A k \in DOMAIN route : route[k] \in nets
    /\ alive \subseteq nets \ {ZERO_NET, ONE_NET}
    /\ IF ~allow_orphan_sinks /\ DOMAIN route /= module.unrouted_sinks
       THEN /\ op' = Call("make_routes", "-", "-", "-", "-", TRUE)
            /\ module' = [module EXCEPT !.has_nets = TRUE, !.nets = {}]
            /\ log' = << [Event("router", "-", module) EXCEPT !.pairs = {}] >>
       ELSE LET m1 == FoldRoutes([module EXCEPT !.has_nets = TRUE, !.nets = nets],
                                 route, DOMAIN route)
                r  == << [Event("router", "-", module) EXCEPT
                              !.pairs = RoutedPairs(module, route)] >>
                h  == handle_post_route_cleanup(
                          [raised |-> FALSE, m |-> m1, log |-> r], alive)
            IN  /\ op' = Call("make_routes", "-", "-", "-", "-", h.raised)
                /\ module' = h.m
                /\ log' = h.log
    /\ ret' = NoRet
    /\ UNCHANGED <<bel, site, calls, busVars, featVars>>

\* faulty variant: output_nets only needs the net table to exist
OutputNetsAccepted_AnyNets(m) == m.has_nets

\* Module.output_nets runs past line 985: self.nets exists and is not empty
OutputNetsAccepted(m) == m.has_nets /\ m.nets /= {}

\* what output_nets yields: the nets it sets FIXED_ROUTE on, each with the
\* get_nets or get_pins lookup that selects it
NetsRet(directives) == [sinks |-> <<>>, sources |-> <<>>, directives |-> directives]

\* faulty variant: is_net_alive is not asked
Directives_DeadToo(m) ==
    { [net |-> n, lookup |-> <<"get_nets", "<const0>">>] : n \in m.nets \cap {ZERO_NET} }
    \cup { [net |-> n, lookup |-> <<"get_nets", "<const1>">>] : n \in m.nets \cap {ONE_NET} }
    \cup { [net |-> n,
            lookup |-> <<"get_pins", DGet(m.source_bels, n)[1], DGet(m.source_bels, n)[2]>>] :
            n \in { k \in m.nets \ {ZERO_NET, ONE_NET} : DHas(m.source_bels, k) } }

\* the loop of lines 987-1020 over self.nets
Directives(m) ==
    { [net |-> n, lookup |-> <<"get_nets", "<const0>">>] : n \in m.nets \cap {ZERO_NET} }
    \cup { [net |-> n, lookup |-> <<"get_nets", "<const1>">>] : n \in m.nets \cap {ONE_NET} }
    \cup { [net |-> n,
            lookup |-> <<"get_pins", DGet(m.source_bels, n)[1], DGet(m.source_bels, n)[2]>>] :
            n \in { k \in m.nets \ {ZERO_NET, ONE_NET} :
                       DHas(m.source_bels, k) /\ k \in m.alive } }

\* Module.output_nets (lines 979-1020), iterated
output_nets ==
    /\ Running
    /\ op' = Call("output_nets", "-", "-", "-", "-", ~OutputNetsAccepted(module))
    /\ ret' = IF OutputNetsAccepted(module) THEN NetsRet(Directives(module)) ELSE NoRet
    /\ UNCHANGED <<bel, site, module, calls, busVars, featVars, log>>

\* Module.output_verilog (lines 907-956), iterated.  It reads root_in,
\* root_out, root_inout, wires, the Bels and wire_assigns and tests nothing
\* about routing; the port and pin names of the model hold no '[', so neither
\* make_bus nor Bel.output_verilog (lines 101-222) raises
output_verilog ==
    /\ Running
    /\ op' = Call("output_verilog", "-", "-", "-", "-", FALSE)
    /\ ret' = NoRet
    /\ UNCHANGED <<bel, site, module, calls, busVars, featVars, log>>

\* Module.output_bel_locations (lines 958-977), iterated: one LOC constraint
\* for each Bel of each Site of the Module
output_bel_locations ==
    /\ Running
    /\ op' = Call("output_bel_locations", "-", "-", "-", "-", FALSE)
    /\ ret' = NoRet
    /\ UNCHANGED <<bel, site, module, calls, busVars, featVars, log>>

\* the sinks the Router routes and the nets it routes them to
Routes(m, nets) ==
    UNION { [S -> nets \ OrphanNets] : S \in SUBSET m.unrouted_sinks }

BusIdle == busIn = <<>> /\ busOut = NotRun /\ FeatIdle

Init == Constructed /\ calls = MaxCalls /\ BusIdle

\* construction, integration and BEL removal
Next ==
    \/ \E s \in Sites : \E b \in SiteBelChoices(s) : add_bel(s, b)
    \/ \E s \in Sites : \E b \in SiteBelChoices(s), pin \in InPins, w \in SinkNames :
          add_sink(s, b, pin, w)
    \/ \E s \in Sites : \E b \in SiteBelChoices(s), pin \in OutPins, w \in SourceNames :
          add_source(s, b, pin, w)
    \/ \E s \in Sites : \E b \in SiteBelChoices(s), pin \in OutPins, w \in InternalNames :
          add_internal_source(s, b, pin, w)
    \/ \E s \in Sites : \E b \in SiteBelChoices(s), pin \in InPins, w \in InternalNames :
          connect_internal(s, b, pin, w)
    \/ \E s \in Sites : \E w \in SourceNames, v \in InternalNames :
          add_output_from_internal(s, w, v)
    \/ \E s \in Sites : \E w \in SourceNames, v \in SourceNames :
          add_output_from_output(s, w, v)
    \/ \E s \in Sites : add_site(s)
    \/ \E s \in Sites : \E b \in SiteBelChoices(s) : remove_bel(s, b)

Spec == Init /\ [][Next]_vars

RouteInit == Constructed /\ calls = MaxRouteCalls /\ BusIdle

\* construction, integration, routing and emission
RouteNext ==
    \/ \E s \in Sites : \E b \in SiteBelChoices(s) : add_bel(s, b)
    \/ \E s \in Sites : \E b \in SiteBelChoices(s), pin \in InPins, w \in SinkNames :
          add_sink(s, b, pin, w)
    \/ \E s \in Sites : \E b \in SiteBelChoices(s), pin \in OutPins, w \in SourceNames :
          add_source(s, b, pin, w)
    \/ \E s \in Sites : \E b \in SiteBelChoices(s), pin \in OutPins, w \in InternalNames :
          add_internal_source(s, b, pin, w)
    \/ \E s \in Sites : \E b \in SiteBelChoices(s), pin \in InPins, w \in InternalNames :
          connect_internal(s, b, pin, w)
    \/ \E s \in Sites : \E w \in SourceNames, v \in InternalNames :
          add_output_from_internal(s, w, v)
    \/ \E s \in Sites : \E w \in SourceNames, v \in SourceNames :
          add_output_from_output(s, w, v)
    \/ \E s \in Sites : add_site(s)
    \/ \E allow \in BOOLEAN, nets \in SUBSET NetCandidates(module) :
          \E route \in Routes(module, nets), alive \in SUBSET nets :
              make_routes(allow, nets, route, alive)
    \/ output_nets
    \/ output_verilog
    \/ output_bel_locations

SpecRoute == RouteInit /\ [][RouteNext]_vars

CleanupInit == Constructed /\ calls = MaxCleanupCalls /\ BusIdle

\* Sites with cleanup functions, their integration and routing
CleanupNext ==
    \/ \E s \in Sites : \E b \in SiteBelChoices(s) : add_bel(s, b)
    \/ \E s \in Sites : \E b \in SiteBelChoices(s), pin \in InPins, w \in SinkNames :
          add_sink(s, b, pin, w)
    \/ \E s \in Sites : \E b \in SiteBelChoices(s), pin \in OutPins, w \in SourceNames :
          add_source(s, b, pin, w)
    \/ \E s \in Sites : \E func \in HookFuncs : set_post_route_cleanup_function(s, func)
    \/ \E s \in Sites : add_site(s)
    \/ \E allow \in BOOLEAN, nets \in SUBSET NetCandidates(module) :
          \E route \in Routes(module, nets), alive \in SUBSET nets :
              make_routes(allow, nets, route, alive)

SpecCleanup == CleanupInit /\ [][CleanupNext]_vars

BusStart == BusInit /\ Constructed /\ calls = MaxCalls /\ FeatIdle

SpecBus == BusStart /\ [][BusNext]_vars

FeatStart ==
    /\ FeatInit /\ Constructed /\ calls = MaxCalls
    /\ busIn = <<>> /\ busOut = NotRun

SpecFeat == FeatStart /\ [][FeatNext]_vars

TopInit == Constructed /\ calls = MaxCalls /\ BusIdle

\* the top level ports of the Module
TopNext ==
    \/ \E site_to_signal \in SignalMaps : set_site_to_signal(site_to_signal)
    \/ \E tile \in PortTiles, s \in PortSites, name \in PortPads :
          add_top_in_port(tile, s, name)
    \/ \E tile \in PortTiles, s \in PortSites, name \in PortPads :
          add_top_out_port(tile, s, name)
    \/ \E tile \in PortTiles, s \in PortSites, name \in PortPads :
          add_top_inout_port(tile, s, name)

SpecTop == TopInit /\ [][TopNext]_vars

RemoveInit == Constructed /\ calls = MaxRemoveCalls /\ BusIdle

\* construction, integration and removal through the Module
RemoveNext ==
    \/ \E s \in Sites : \E b \in SiteBelChoices(s) : add_bel(s, b)
    \/ \E s \in Sites : \E b \in SiteBelChoices(s), pin \in InPins, w \in SinkNames :
          add_sink(s, b, pin, w)
    \/ \E s \in Sites : \E b \in SiteBelChoices(s), pin \in OutPins, w \in SourceNames :
          add_source(s, b, pin, w)
    \/ \E s \in Sites : \E b \in SiteBelChoices(s), pin \in OutPins, w \in InternalNames :
          add_internal_source(s, b, pin, w)
    \/ \E s \in Sites : \E b \in SiteBelChoices(s), pin \in InPins, w \in InternalNames :
          connect_internal(s, b, pin, w)
    \/ \E s \in Sites : \E w \in SourceNames, v \in InternalNames :
          add_output_from_internal(s, w, v)
    \/ \E s \in Sites : \E w \in SourceNames, v \in SourceNames :
          add_output_from_output(s, w, v)
    \/ \E s \in Sites : add_site(s)
    \/ \E s \in Sites : \E b \in SiteBelChoices(s) : module_remove_bel(s, b)
    \/ \E wire_pkey \in SinkIds : remove_sink(wire_pkey)

SpecRemove == RemoveInit /\ [][RemoveNext]_vars

SinkInit == Constructed /\ calls = MaxSinkCalls /\ BusIdle

\* construction, integration and the release of single Bel pins
SinkNext ==
    \/ \E s \in Sites : \E b \in SiteBelChoices(s) : add_bel(s, b)
    \/ \E s \in Sites : \E b \in SiteBelChoices(s), pin \in InPins, w \in SinkNames :
          add_sink(s, b, pin, w)
    \/ \E s \in Sites : \E b \in SiteBelChoices(s), pin \in OutPins, w \in SourceNames :
          add_source(s, b, pin, w)
    \/ \E s \in Sites : \E b \in SiteBelChoices(s), pin \in OutPins, w \in InternalNames :
          add_internal_source(s, b, pin, w)
    \/ \E s \in Sites : \E b \in SiteBelChoices(s), pin \in InPins, w \in InternalNames :
          connect_internal(s, b, pin, w)
    \/ \E s \in Sites : add_site(s)
    \/ \E s \in Sites : \E b \in SiteBelChoices(s), pin \in Pins :
          remove_internal_sink(s, b, pin)

SpecSink == SinkInit /\ [][SinkNext]_vars

ConnInit == Constructed /\ calls = MaxConnCalls /\ BusIdle

\* Bels wired through the Site and by hand, top level ports, integration
ConnNext ==
    \/ \E s \in Sites : \E b \in SiteBelChoices(s) : add_bel(s, b)
    \/ \E s \in Sites : \E b \in SiteBelChoices(s), pin \in InPins, w \in SinkNames :
          add_sink(s, b, pin, w)
    \/ \E s \in Sites : \E b \in SiteBelChoices(s), pin \in OutPins, w \in SourceNames :
          add_source(s, b, pin, w)
    \/ \E s \in Sites : \E b \in SiteBelChoices(s), pin \in OutPins, w \in InternalNames :
          add_internal_source(s, b, pin, w)
    \/ \E s \in Sites : \E b \in SiteBelChoices(s), pin \in Pins, w \in ConnTargets :
          set_connection(s, b, pin, w)
    \/ \E tile \in PortTiles, s \in PortSites, name \in PortPads :
          add_top_in_port(tile, s, name)
    \/ \E s \in Sites : add_site(s)

SpecConn == ConnInit /\ [][ConnNext]_vars

IoInit == Constructed /\ calls = MaxCalls /\ BusIdle

\* the IOSTANDARD of a Module that is given its input ports
IoNext ==
    \/ \E iostandards \in IoCandidates : set_iostandard(iostandards)
    \/ \E site_to_signal \in SignalMaps : set_site_to_signal(site_to_signal)
    \/ \E tile \in PortTiles, s \in PortSites, name \in PortPads :
          add_top_in_port(tile, s, name)

SpecIo == IoInit /\ [][IoNext]_vars

(***************************************************************************)
(* Claims about Site and Module                                            *)
(***************************************************************************)
\* the step being taken is a call of `name` on Site s
Calls(name, s) == op'.name = name /\ op'.site = s

\* what integrating Site s into the current Module returns
Integrated(s) == integrate_site(s, module).result

IntegrateReturns(s) == ~integrate_site(s, module).raised

\* the integration result r shares a name, an identity or a key with what
\* the Module m already holds
SharesWithModule(m, r) ==
    \/ r.wires \cap m.wires /= {}
    \/ r.unrouted_sinks \cap m.unrouted_sinks /= {}
    \/ r.unrouted_sources \cap m.unrouted_sources /= {}
    \/ DKeys(r.wire_pkey_to_wire) \cap DKeys(m.wire_pkey_to_wire) /= {}
    \/ DKeys(r.source_bels) \cap DKeys(m.source_bels) /= {}
    \/ DKeys(r.wire_assigns) \cap DKeys(m.wire_assigns) /= {}
    \/ DKeys(r.shorted_nets) \cap DKeys(m.shorted_nets) /= {}

\* C1: Module.add_site never silently overwrites: when the integration result
\* of the Site being added shares a wire name, an unrouted sink or source
\* identity, or a key of the identity, driver, alias or shorted-net maps with
\* the Module, add_site raises and the Site list is left as it was.
C1_AddSiteNeverOverwrites ==
    [][\A s \in Sites :
          (/\ Calls("add_site", s)
           /\ IntegrateReturns(s)
           /\ SharesWithModule(module, Integrated(s)))
              => (op'.raised /\ module'.sites = module.sites)]_vars

\* add_site of a second Site has raised on a collision with the first
C1_Witness ==
    /\ op.name = "add_site" /\ op.site = "s2" /\ op.raised
    /\ module.sites = <<"s1">>
    /\ IntegrateReturns("s2")
    /\ Integrated("s2").wires \cap module.wires /= {}
    /\ DKeys(Integrated("s2").wire_pkey_to_wire) \cap DKeys(module.wire_pkey_to_wire) /= {}

\* the wires that Bel b drives through one of its output pins
DrivenBy(b) == { bel[b].connections[q] : q \in bel[b].outputs } \ {NoConn}

\* another Bel owned by the Site consumes a wire that Bel b drives
ConsumedByOther(st, b) ==
    \E i \in 1..Len(st.bels) :
        /\ st.bels[i] /= b
        /\ \E p \in Pins \ bel[st.bels[i]].outputs :
              bel[st.bels[i]].connections[p] \in DrivenBy(b)

\* C2: Site.remove_bel(b) raises whenever another Bel owned by the Site has a
\* pin connected to a wire driven by one of b's output pins, and then nothing
\* is removed.
C2_RemoveBelGuardsConsumers ==
    [][\A s \in Sites : \A b \in Bels :
          (/\ Calls("remove_bel", s) /\ op'.bel = b
           /\ b \in Range(site[s].bels)
           /\ ConsumedByOther(site[s], b))
              => (op'.raised /\ site'[s] = site[s])]_vars

\* the identities of the sinks of st whose consumers are all pins of Bel b
LastConsumerSinks(st, b) ==
    { DGet(st.site_wire_to_wire_pkey, st.sinks[i][1]) :
        i \in { j \in 1..Len(st.sinks) :
                  /\ Len(st.sinks[j][2]) > 0
                  /\ \A k \in 1..Len(st.sinks[j][2]) : st.sinks[j][2][k][1] = b } }

\* the identities of the sources of st that Bel b drives
DrivenSources(st, b) ==
    { DGet(st.site_wire_to_wire_pkey, st.sources[i][1]) :
        i \in { j \in 1..Len(st.sources) : st.sources[j][2][1] = b } }

\* C3: a successful Site.remove_bel(b) returns exactly the identities this
\* removal leaves with zero owners: the sinks whose last consumer was b and the
\* sources b drove; a sink that had no consumer before the call is not
\* returned again.
C3_RemoveBelReturnsFreedIds ==
    [][\A s \in Sites : \A b \in Bels :
          (Calls("remove_bel", s) /\ op'.bel = b /\ ~op'.raised)
              => /\ Range(ret'.sinks) = LastConsumerSinks(site[s], b)
                 /\ Range(ret'.sources) = DrivenSources(site[s], b)]_vars

\* the key sets of sinks, sources and internal_sources are pairwise disjoint
PairwiseDisjoint(st) ==
    /\ DKeys(st.sinks) \cap DKeys(st.sources) = {}
    /\ DKeys(st.sinks) \cap DKeys(st.internal_sources) = {}
    /\ DKeys(st.sources) \cap DKeys(st.internal_sources) = {}

Shorted(s, st, r, i) ==
    /\ DHas(r.shorted_nets, SitePinPkey(s, st.outputs[i][1]))
    /\ DGet(r.shorted_nets, SitePinPkey(s, st.outputs[i][1]))
          = SitePinPkey(s, st.outputs[i][2])

\* the mirrored wire is a site pin that the Site registers as a sink
MirrorsSinkPin(s, st, w) == w \in SitePinNames(s) /\ DHas(st.sinks, w)

Pools(r) == r.unrouted_sinks \cup r.unrouted_sources

\* C5: integrate_site classifies a mirrored-output pair as a shorted net if
\* and only if the mirrored wire is a site pin whose identity is an unrouted
\* sink, and afterwards neither identity of the pair is in the unrouted-sink
\* pool or in the unrouted-source pool of the result.
C5_ShortedNetClassification ==
    [][\A s \in Sites :
          (Calls("add_site", s) /\ IntegrateReturns(s)) =>
              LET st == site[s]
                  r  == Integrated(s)
              IN  /\ \A i \in 1..Len(st.outputs) :
                        Shorted(s, st, r, i) => MirrorsSinkPin(s, st, st.outputs[i][2])
                  /\ \A i \in 1..Len(st.outputs) :
                        MirrorsSinkPin(s, st, st.outputs[i][2]) =>
                            \E j \in 1..Len(st.outputs) :
                                /\ st.outputs[j][2] = st.outputs[i][2]
                                /\ Shorted(s, st, r, j)
                  /\ \A i \in 1..Len(st.outputs) :
                        Shorted(s, st, r, i) =>
                            /\ SitePinPkey(s, st.outputs[i][1]) \notin Pools(r)
                            /\ SitePinPkey(s, st.outputs[i][2]) \notin Pools(r)]_vars

\* Scenario B: output wire y mirrors the internal source x of the Site, and y
\* is also registered as a sink
ScenarioB(st, y, x) ==
    /\ DHas(st.internal_sources, x)
    /\ DHas(st.outputs, y) /\ DGet(st.outputs, y) = x
    /\ DHas(st.sinks, y)

\* the identity is a key or a value of the shorted-net map
InShorted(r, pkey) ==
    \E i \in 1..Len(r.shorted_nets) :
        r.shorted_nets[i][1] = pkey \/ r.shorted_nets[i][2] = pkey

C7_OutputNetsAsClaimed ==
    op.name = "output_nets" => (~op.raised <=> module.has_nets)

\* C7 (amended): output_nets fails in every state where make_routes has not
\* completed and in every state where the Router realized no net; it is
\* accepted after make_routes has completed with at least one realized net.
C7_OutputNets ==
    op.name = "output_nets" =>
        (~op.raised <=> (module.has_nets /\ module.nets /= {}))

\* output_nets has been accepted after a make_routes that realized a net
C7_Witness ==
    /\ op.name = "output_nets" /\ ~op.raised
    /\ module.has_nets /\ module.nets /= {}
    /\ Len(module.sites) > 0

\* the step is a call of one of the four wiring mutators that take a Bel pin
PinMutatorStep ==
    \/ op'.name = "mutator"
    \/ op'.name \in {"add_sink", "add_source", "add_internal_source", "connect_internal"}

\* C10: a Bel pin is assigned exactly once: under add_sink, add_source,
\* add_internal_source and connect_internal a pin that already has a
\* connection keeps its target, because a call naming it raises.
C10_PinAssignedOnce ==
    [][\A b \in Bels : \A pin \in Pins :
          (PinMutatorStep /\ Connected(b, pin))
              => bel'[b].connections[pin] = bel[b].connections[pin]]_vars

(***************************************************************************)
(* Claims about Site.__init__                                              *)
(***************************************************************************)
\* the tile and site prefix of a feature name: its first two pieces
PrefixOf(name) == SubSeq(Split(name), 1, IF Len(Split(name)) < 2 THEN 1 ELSE 2)

\* the suffix of a feature name: what follows the tile and site prefix
SuffixOf(name) == Join(From2(Split(name)))

\* some feature of the batch has another prefix than the first feature
PrefixMismatch(fs) ==
    \E i \in 1..Len(fs) : PrefixOf(fs[i].feature) /= PrefixOf(fs[1].feature)

\* C11: Site construction from a feature batch: the enabled feature set holds
\* exactly the suffixes of the features of non-zero weight, and construction
\* raises if any feature of the batch, of zero weight or not, has a tile or
\* site prefix different from the first feature's.
C11_SiteFromFeatures ==
    featOut.run =>
        /\ ~featOut.raised =>
              featOut.set_features =
                  { SuffixOf(featIn.features[i].feature) :
                      i \in { j \in 1..Len(featIn.features) :
                                featIn.features[j].value /= 0 } }
        /\ PrefixMismatch(featIn.features) => featOut.raised

(***************************************************************************)
(* Claims about the IOSTANDARD and the top level ports                     *)
(***************************************************************************)
\* the values that are candidates of every port
Surviving(iostandards) ==
    { v \in IoStandards : \A i \in 1..Len(iostandards) : v \in Range(iostandards[i]) }

\* C12: Module.set_iostandard intersects the candidate sets of all ports: when
\* exactly one value survives, the Module's IOSTANDARD becomes that value; when
\* none or more than one survives, it raises and the stored IOSTANDARD is
\* unchanged.
C12_SetIoStandard ==
    [][\A iostandards \in IoCandidates :
          set_iostandard(iostandards) =>
              IF Cardinality(Surviving(iostandards)) = 1
              THEN ~op'.raised /\ module'.iostandard \in Surviving(iostandards)
              ELSE op'.raised /\ module'.iostandard = module.iostandard]_vars

\* set_iostandard has raised on a Module that already stored an IOSTANDARD
C12_Witness ==
    /\ op.name = "set_iostandard" /\ op.raised
    /\ module.iostandard \in IoStandards

\* the port name of a site: its signal name if it has one, else tile_site_name
PortName(m, tile, s, name) ==
    IF \E i \in 1..Len(m.site_to_signal) : m.site_to_signal[i][1] = s
    THEN DGet(m.site_to_signal, s)
    ELSE tile \o "_" \o s \o "_" \o name

Roots(m) == <<m.root_in, m.root_out, m.root_inout>>

\* the port names of the model and two wire names that are no ports
PortNames ==
    { tile \o "_" \o s \o "_" \o name :
        tile \in PortTiles, s \in PortSites, name \in PortPads } \cup {"clk", "O", "X"}

\* C13: a top level port call derives the port name from the site to signal
\* map if the site is in it, else as tile_site_name; it raises when the name
\* is already a port of the same direction, leaving the three port sets as
\* they were, and accepts a name that is only a port of another direction;
\* is_top_level(w) is true exactly when w is in one of the three port sets.
C13_TopPorts ==
    [][\A tile \in PortTiles, s \in PortSites, name \in PortPads :
          LET port == PortName(module, tile, s, name) IN
          /\ add_top_in_port(tile, s, name) =>
                IF port \in module.root_in
                THEN op'.raised /\ Roots(module') = Roots(module)
                ELSE /\ ~op'.raised /\ ret'.port = port
                     /\ Roots(module') =
                           <<module.root_in \cup {port}, module.root_out, module.root_inout>>
          /\ add_top_out_port(tile, s, name) =>
                IF port \in module.root_out
                THEN op'.raised /\ Roots(module') = Roots(module)
                ELSE /\ ~op'.raised /\ ret'.port = port
                     /\ Roots(module') =
                           <<module.root_in, module.root_out \cup {port}, module.root_inout>>
          /\ add_top_inout_port(tile, s, name) =>
                IF port \in module.root_inout
                THEN op'.raised /\ Roots(module') = Roots(module)
                ELSE /\ ~op'.raised /\ ret'.port = port
                     /\ Roots(module') =
                           <<module.root_in, module.root_out, module.root_inout \cup {port}>>
          /\ \A w \in PortNames :
                is_top_level(module', w) <=>
                    w \in module'.root_in \cup module'.root_out \cup module'.root_inout]_vars

\* the signal name of a site is a port of two directions, and registering it
\* a second time as an output has raised
C13_Witness ==
    /\ op.name = "add_top_out_port" /\ op.raised
    /\ "clk" \in module.root_in \cap module.root_out
    /\ "T_SB_PAD" \in module.root_in

(***************************************************************************)
(* Claims about Site.add_source                                            *)
(***************************************************************************)
\* the source name has a driver in Site s
HasDriver(s, source) ==
    \E i \in 1..Len(site[s].sources) : site[s].sources[i][1] = source

\* C14: Site.add_source(bel, pin, name) raises if name already has a driver in
\* the Site's sources or if pin already has a connection, and then the Site,
\* the Bels and the Module are unchanged; on success the pin is connected to
\* name, marked as an output, and name maps to the one driver (bel, pin).
C14_AddSource ==
    [][\A s \in Sites : \A b \in Bels, pin \in Pins, source \in Wires :
          add_source(s, b, pin, source) =>
              IF HasDriver(s, source) \/ bel[b].connections[pin] /= NoConn
              THEN /\ op'.raised
                   /\ site' = site /\ bel' = bel /\ module' = module
              ELSE /\ ~op'.raised
                   /\ bel'[b].connections[pin] = source
                   /\ pin \in bel'[b].outputs
                   /\ \A i \in 1..Len(site'[s].sources) :
                         site'[s].sources[i][1] = source
                             => site'[s].sources[i][2] = <<b, pin>>
                   /\ \E i \in 1..Len(site'[s].sources) :
                         site'[s].sources[i][1] = source
                   /\ \A i \in 1..Len(site[s].sources) :
                         site'[s].sources[i] = site[s].sources[i]
                   /\ module' = module]_vars

\* add_source has raised for a name that another Bel already drives, on a pin
\* that had no connection
C14_Witness ==
    /\ op.name = "add_source" /\ op.raised
    /\ HasDriver(op.site, op.wire)
    /\ DGet(site[op.site].sources, op.wire)[1] /= op.bel
    /\ bel[op.bel].connections[op.pin] = NoConn
    /\ module = ModuleInit

(***************************************************************************)
(* Claims about the phases of a Module                                     *)
(***************************************************************************)
EmissionCalls == {"output_verilog", "output_bel_locations", "output_nets"}

\* C15: the phases accumulating, routed, emitting are enforced: an emission
\* operation (output_verilog, output_bel_locations, output_nets) invoked
\* before make_routes has completed is rejected with a fatal error.
C15_EmissionAfterRouting ==
    (op.name \in EmissionCalls /\ ~module.has_nets) => op.raised

(***************************************************************************)
(* Claims about the integration of a Site                                  *)
(***************************************************************************)
\* C16: a Site is integrated into a Module exactly once: Module.add_site with
\* a Site that is already in the Module's Site list raises and the Site does
\* not appear a second time in the list, also when its Bels use no site wire.
C16_AddSiteOnce ==
    [][\A s \in Sites :
          (Calls("add_site", s) /\ InModule(s))
              => (op'.raised /\ module'.sites = module.sites)]_vars

\* the identities of the site pins named by the keys of the dict d
PinIds(s, d) == { SitePinPkey(s, d[i][1]) : i \in 1..Len(d) }

\* the global wire names of the keys of the dict d
GlobalNames(s, d) == { SiteTile(s) \o "_" \o SiteName(s) \o "_" \o d[i][1] : i \in 1..Len(d) }

\* the shape without the identities that the shorted nets took out of the
\* pools: ks from the unrouted sinks, kr from the unrouted sources
ResultShape(s, st, r, ks, kr) ==
    /\ GlobalNames(s, st.internal_sources) \cup GlobalNames(s, st.sinks)
           \cup GlobalNames(s, st.sources) \subseteq r.wires
    /\ r.unrouted_sinks \cup ks = PinIds(s, st.sinks)
    /\ r.unrouted_sinks \cap ks = {}
    /\ r.unrouted_sources \cup kr = PinIds(s, st.sources)
    /\ r.unrouted_sources \cap kr = {}
    /\ DKeys(r.wire_pkey_to_wire) = PinIds(s, st.sinks) \cup PinIds(s, st.sources)
    /\ DKeys(r.source_bels) = PinIds(s, st.sources)
    /\ \A i \in 1..Len(st.sources) :
          DGet(r.source_bels, SitePinPkey(s, st.sources[i][1])) = st.sources[i][2]

ReferredBels(st) ==
    { st.sources[i][2][1] : i \in 1..Len(st.sources) }
        \cup { st.internal_sources[i][2][1] : i \in 1..Len(st.internal_sources) }
        \cup UNION { { st.sinks[i][2][j][1] : j \in 1..Len(st.sinks[i][2]) } :
                       i \in 1..Len(st.sinks) }

NoDangling(st) == ReferredBels(st) \subseteq { st.bels[i] : i \in 1..Len(st.bels) }

\* C18: no dangling references under mutation: a successful remove_bel(b) on
\* a Site whose sinks, sources and internal_sources refer only to Bels of its
\* Bel list leaves no entry that still refers to b, so that check_site still
\* passes.
C18_NoDanglingAfterRemoveBel ==
    [][\A s \in Sites : \A b \in Bels :
          (/\ Calls("remove_bel", s) /\ op'.bel = b /\ ~op'.raised
           /\ NoDangling(site[s]) /\ check_site(site[s]))
              => (/\ b \notin ReferredBels(site'[s])
                  /\ NoDangling(site'[s])
                  /\ check_site(site'[s]))]_vars

\* the wire names on the right-hand side of the Module's alias assignments
AliasTargets(m) == { m.wire_assigns[i][2] : i \in 1..Len(m.wire_assigns) }

\* the global wire name of an identity
GlobalName(m, id) == DGet(m.wire_pkey_to_wire, id)

\* C19: Module.remove_bel(site, bel) raises when Site.remove_bel returns and
\* the global wire name of one of the source identities it removed is the
\* right-hand side of an alias assignment; when Module.remove_bel returns,
\* no removed source identity is left in source_bels or unrouted_sources, and
\* every removed sink identity is gone from unrouted_sinks, its wire name
\* from wires and the alias keyed by its wire name from wire_assigns.
C19_ModuleRemoveBel ==
    [][\A s \in Sites : \A b \in Bels :
          (Calls("Module.remove_bel", s) /\ op'.bel = b)
              => LET r == site_remove_bel(site[s], b) IN
                 /\ (/\ ~r.raised
                     /\ \E id \in Range(r.removed_sources) :
                           /\ DHas(module.wire_pkey_to_wire, id)
                           /\ GlobalName(module, id) \in AliasTargets(module))
                        => op'.raised
                 /\ ~op'.raised
                        => /\ ~r.raised
                           /\ \A id \in Range(r.removed_sources) :
                                 /\ id \notin module'.unrouted_sources
                                 /\ ~DHas(module'.source_bels, id)
                           /\ \A id \in Range(r.removed_sinks) :
                                 /\ id \notin module'.unrouted_sinks
                                 /\ GlobalName(module, id) \notin module'.wires
                                 /\ ~DHas(module'.wire_assigns, GlobalName(module, id))]_vars

\* Module.remove_bel(b1) has raised after Site.remove_bel took b1 and its
\* source O out of the Site: the name of O is still the target of the alias
\* of output Y, and O is still registered in the Module
C19_Witness ==
    /\ op.name = "Module.remove_bel" /\ op.raised /\ op.site = "s1" /\ op.bel = "b1"
    /\ "b1" \notin Range(site["s1"].bels)
    /\ ~DHas(site["s1"].sources, "O")
    /\ DHas(module.wire_pkey_to_wire, SitePinPkey("s1", "O"))
    /\ GlobalName(module, SitePinPkey("s1", "O")) \in AliasTargets(module)
    /\ SitePinPkey("s1", "O") \in module.unrouted_sources
    /\ DHas(module.source_bels, SitePinPkey("s1", "O"))

\* C20: a call of Module.remove_sink(wire_pkey) that returns has removed
\* wire_pkey from unrouted_sinks, its wire name from wires and the alias
\* keyed by its wire name from wire_assigns if there was one; unrouted_sources,
\* source_bels, shorted_nets, wire_pkey_to_wire and the aliases keyed by other
\* names, in their order, are as they were.
C20_RemoveSink ==
    [][\A id \in SinkIds :
          (op'.name = "remove_sink" /\ op'.wire = id /\ ~op'.raised)
              => /\ id \in module.unrouted_sinks
                 /\ module'.unrouted_sinks = module.unrouted_sinks \ {id}
                 /\ GlobalName(module, id) \in module.wires
                 /\ module'.wires = module.wires \ {GlobalName(module, id)}
                 /\ ~DHas(module'.wire_assigns, GlobalName(module, id))
                 /\ module'.wire_assigns
                      = SelectSeq(module.wire_assigns,
                                  LAMBDA e : e[1] /= GlobalName(module, id))
                 /\ module'.unrouted_sources = module.unrouted_sources
                 /\ module'.source_bels = module.source_bels
                 /\ module'.shorted_nets = module.shorted_nets
                 /\ module'.wire_pkey_to_wire = module.wire_pkey_to_wire]_vars

\* remove_sink has returned for the sink Y of Site s1, which is also an
\* output of the Site: the alias that its integration recorded under the
\* name of Y is gone, the alias target O is still an unrouted source
C20_Witness ==
    /\ op.name = "remove_sink" /\ ~op.raised /\ op.wire = SitePinPkey("s1", "Y")
    /\ DHas(site["s1"].outputs, "Y")
    /\ DHas(site["s1"].sinks, "Y")
    /\ DHas(module.wire_pkey_to_wire, SitePinPkey("s1", "Y"))
    /\ ~DHas(module.wire_assigns, GlobalName(module, SitePinPkey("s1", "Y")))
    /\ SitePinPkey("s1", "O") \in module.unrouted_sources
    /\ SitePinPkey("s1", "Y") \notin module.unrouted_sinks

(***************************************************************************)
(* Claims about the order of the calls inside Module.make_routes           *)
(***************************************************************************)
\* the Sites of the Module that have a cleanup function, each once, in the
\* order of their first insertion
HookedSites ==
    LET first(i) == \A j \in 1..(i - 1) : module.sites[j] /= module.sites[i]
        idx == { i \in 1..Len(module.sites) :
                    first(i) /\ site[module.sites[i]].post_route_cleanup /= None }
        nth[k \in 1..Cardinality(idx)] ==
            CHOOSE i \in idx : Cardinality({ j \in idx : j <= i }) = k
    IN  [k \in 1..Cardinality(idx) |-> module.sites[nth[k]]]

\* every pair the Router returned is an entry of the alias assignments d
Folded(pairs, d) == \A p \in pairs : DHas(d, p[1]) /\ DGet(d, p[1]) = p[2]

\* C21: a make_routes that returns has called the Router first, then the
\* cleanup function of every Site that has one exactly once, in the order
\* the Sites were inserted, each with every routed pair already in
\* wire_assigns when the first of them starts, and prune_antennas last, with
\* unrouted_sinks as the cleanup functions left it.
C21_MakeRoutesOrder ==
    (op.name = "make_routes" /\ ~op.raised)
        => LET n == Len(log) IN
           /\ n = Len(HookedSites) + 2
           /\ log[1].ev = "router"
           /\ \A i \in 2..(n - 1) :
                 /\ log[i].ev = "hook"
                 /\ log[i].site = HookedSites[i - 1]
           /\ Folded(log[1].pairs, log[2].wire_assigns)
           /\ log[n].ev = "prune"
           /\ log[n].unrouted_sinks = module.unrouted_sinks

\* the same order, when a Site's cleanup function is called once for each
\* time the Site is listed in self.sites
C21_OrderPerListing ==
    (op.name = "make_routes" /\ ~op.raised)
        => LET n == Len(log)
               listed == SelectSeq(module.sites,
                                   LAMBDA s : site[s].post_route_cleanup /= None)
           IN
           /\ n = Len(listed) + 2
           /\ log[1].ev = "router"
           /\ \A i \in 2..(n - 1) :
                 /\ log[i].ev = "hook"
                 /\ log[i].site = listed[i - 1]
           /\ Folded(log[1].pairs, log[2].wire_assigns)
           /\ log[n].ev = "prune"
           /\ log[n].unrouted_sinks = module.unrouted_sinks

(***************************************************************************)
(* Claims about the connection targets at integration                      *)
(***************************************************************************)
\* the connection of pin `pin` of Bel b dangles in Site record st
Dangling(st, m, b, pin) ==
    LET wire == bel[b].connections[pin] IN
    /\ wire /= NoConn
    /\ wire \notin {Const0, Const1}
    /\ wire \notin DKeys(st.sinks) \cup DKeys(st.sources) \cup DKeys(st.internal_sources)
    /\ wire \notin m.root_in \cup m.root_out \cup m.root_inout

\* C22: when a pin of a Bel of the Site is connected to something that is
\* no constant, no sink, source or internal source of the Site and no top
\* level port of the Module, add_site raises in integrate_site and the
\* Module is as it was.
C22_DanglingRejected ==
    [][\A s \in Sites :
          (/\ Calls("add_site", s)
           /\ \E b \in Range(site[s].bels) : \E pin \in Pins :
                 Dangling(site[s], module, b, pin))
              => (op'.raised /\ module' = module)]_vars

\* add_site has raised for the internally consistent Site s1, which has a
\* sink to integrate and a Bel with a dangling connection, and the Module,
\* which has a top level port, holds no wire and no Site
C22_Witness ==
    /\ op.name = "add_site" /\ op.raised /\ op.site = "s1"
    /\ check_site(site["s1"])
    /\ site["s1"].sinks /= <<>>
    /\ \E b \in Range(site["s1"].bels) : \E pin \in Pins :
          Dangling(site["s1"], module, b, pin)
    /\ module.root_in /= {}
    /\ module.sites = <<>> /\ module.wires = {} /\ module.unrouted_sinks = {}

(***************************************************************************)
(* Claims about Site.remove_internal_sink                                  *)
(***************************************************************************)
\* the consumer entries of sink `wire` in Site record st
Consumers(st, wire) == IF DHas(st.sinks, wire) THEN Range(DGet(st.sinks, wire)) ELSE {}

\* pin `pin` of Bel b of Site record st reads a sink or an internal source
ReadsWire(st, b, pin) ==
    LET wire == bel[b].connections[pin] IN
    /\ b \in Range(st.bels)
    /\ \/ <<b, pin>> \in Consumers(st, wire)
       \/ DHas(st.internal_sources, wire) /\ <<b, pin>> /= DGet(st.internal_sources, wire)

\* what C23 says of a call remove_internal_sink(b, pin) on Site s
RemovedAsClaimed(s, b, pin) ==
    LET st   == site[s]
        wire == bel[b].connections[pin]
        last == Consumers(st, wire) = {<<b, pin>>}
    IN  /\ ~op'.raised
        /\ bel'[b].connections[pin] = None
        /\ <<b, pin>> \notin Consumers(site'[s], wire)
        /\ IF last
           THEN /\ ret'.pkey = DGet(st.site_wire_to_wire_pkey, wire)
                /\ ~DHas(site'[s].sinks, wire)
           ELSE /\ ret'.pkey = None
                /\ Consumers(site'[s], wire) = Consumers(st, wire) \ {<<b, pin>>}

\* C23: remove_internal_sink(bel, pin) on a pin that reads a sink or an
\* internal source of the integrated Site returns, leaves the pin without
\* its connection and (bel, pin) out of the wire's consumers; it returns
\* the wire's identity and deletes the wire from sinks exactly when
\* (bel, pin) was the last consumer of a sink, and otherwise returns None
\* and leaves the other consumers in place.
C23_RemoveInternalSink ==
    [][\A s \in Sites : \A b \in Bels : \A pin \in Pins :
          (/\ Calls("remove_internal_sink", s) /\ op'.bel = b /\ op'.pin = pin
           /\ ReadsWire(site[s], b, pin))
              => RemovedAsClaimed(s, b, pin)]_vars

\* the same for the calls in which the wire the pin reads is not spelled
\* like one of the Bel's output pins
C23_UnlessNamedLikeOutput ==
    [][\A s \in Sites : \A b \in Bels : \A pin \in Pins :
          (/\ Calls("remove_internal_sink", s) /\ op'.bel = b /\ op'.pin = pin
           /\ ReadsWire(site[s], b, pin)
           /\ bel[b].connections[pin] \notin bel[b].outputs)
              => RemovedAsClaimed(s, b, pin)]_vars

(***************************************************************************)
(* Claims about the drivers of mirrored outputs                            *)
(***************************************************************************)
\* some output pin of a Bel of Site record st is connected to `wire`
DrivenByBelOutput(st, wire) ==
    \E b \in Range(st.bels) : \E pin \in bel[b].outputs :
        bel[b].connections[pin] = wire

\* C24: in a Site that Module.add_site has integrated, no wire registered by
\* add_output_from_internal or add_output_from_output (a key of outputs, the
\* left-hand side of an alias assignment) is the connection of an output pin
\* of one of the Site's Bels.
C24_NoDuplicateDrivers ==
    \A s \in Sites :
        InModule(s) =>
            \A i \in 1..Len(site[s].outputs) :
                ~DrivenByBelOutput(site[s], site[s].outputs[i][1])

(***************************************************************************)
(* Claims about the routing directives                                     *)
(***************************************************************************)
\* the nets for which the last output_nets yielded a directive
DirectedNets == { d.net : d \in ret.directives }

\* C25: an output_nets that returns has yielded one directive for each
\* realized constant net, looked up as <const0> for ZERO_NET and <const1> for
\* ONE_NET, one for every other realized net that has an entry in source_bels
\* and is alive, looked up by the pin of that entry, and none for any other
\* net.
C25_OutputNets ==
    (op.name = "output_nets" /\ ~op.raised)
        => /\ DirectedNets =
                 (module.nets \cap {ZERO_NET, ONE_NET})
                 \cup { n \in module.nets :
                          n \in DKeys(module.source_bels) /\ n \in module.alive }
           /\ \A d \in ret.directives :
                 /\ d.net = ZERO_NET => d.lookup = <<"get_nets", "<const0>">>
                 /\ d.net = ONE_NET => d.lookup = <<"get_nets", "<const1>">>
                 /\ d.net \notin {ZERO_NET, ONE_NET} =>
                       \E i \in 1..Len(module.source_bels) :
                           /\ module.source_bels[i][1] = d.net
                           /\ d.lookup = <<"get_pins", module.source_bels[i][2][1],
                                           module.source_bels[i][2][2]>>
           /\ \A d, e \in ret.directives : d.net = e.net => d = e

\* output_nets has returned: of the realized nets, a constant net and a live
\* net with a driver have a directive, a live net without a driver has none
C25_Witness ==
    /\ op.name = "output_nets" /\ ~op.raised
    /\ ZERO_NET \in DirectedNets
    /\ \E n \in DirectedNets : n \in DKeys(module.source_bels)
    /\ \E n \in (module.nets \cap module.alive) \ DirectedNets :
          n \notin DKeys(module.source_bels)

(***************************************************************************)
(* Claims about what a failed call leaves behind                           *)
(***************************************************************************)
\* the collections of the Module that add_site merges into, and its Sites
Merged(m) ==
    <<m.wires, m.unrouted_sinks, m.unrouted_sources, m.wire_pkey_to_wire,
      m.source_bels, m.wire_assigns, m.shorted_nets, m.sites>>

\* C26: when add_site raises in one of its seven merges, after
\* integrate_site has returned, then wires, unrouted_sinks, unrouted_sources,
\* wire_pkey_to_wire, source_bels, wire_assigns, shorted_nets and sites are
\* what they were before the call.
C26_AddSiteAllOrNothing ==
    [][\A s \in Sites :
          (Calls("add_site", s) /\ op'.raised /\ ~integrate_site(s, module).raised)
              => Merged(module') = Merged(module)]_vars

\* C27: when Module.remove_bel raises because the name of a source that
\* Site.remove_bel removed is the right-hand side of an alias assignment, the
\* Site's bels, sinks and sources and the Module's unrouted_sinks,
\* unrouted_sources, source_bels, wires and wire_assigns are what they were
\* before the call.
C27_RemoveBelAllOrNothing ==
    [][\A s \in Sites : \A b \in Bels :
          (/\ Calls("Module.remove_bel", s) /\ op'.bel = b /\ op'.raised
           /\ ~site_remove_bel(site[s], b).raised
           /\ \E id \in Range(site_remove_bel(site[s], b).removed_sources) :
                 /\ DHas(module.wire_pkey_to_wire, id)
                 /\ GlobalName(module, id) \in AliasTargets(module))
              => /\ site'[s].bels = site[s].bels
                 /\ site'[s].sinks = site[s].sinks
                 /\ site'[s].sources = site[s].sources
                 /\ module'.unrouted_sinks = module.unrouted_sinks
                 /\ module'.unrouted_sources = module.unrouted_sources
                 /\ module'.source_bels = module.source_bels
                 /\ module'.wires = module.wires
                 /\ module'.wire_assigns = module.wire_assigns]_vars

(***************************************************************************)
(* Claims about the pools of the Module                                    *)
(***************************************************************************)
\* the identities the Module's pools, source registry and shorted nets hold
PooledIds(m) ==
    m.unrouted_sinks \cup m.unrouted_sources \cup DKeys(m.source_bels)
        \cup DKeys(m.shorted_nets)
        \cup { m.shorted_nets[i][2] : i \in 1..Len(m.shorted_nets) }

\* C28: as long as no call of add_site, Module.remove_bel or remove_sink has
\* raised, every identity in unrouted_sinks, in unrouted_sources, among the
\* keys of source_bels and among the keys and values of shorted_nets is a
\* key of wire_pkey_to_wire, and the name of every identity in unrouted_sinks
\* is in wires.
C28_PoolContainment ==
    ~op.raised
        => /\ PooledIds(module) \subseteq DKeys(module.wire_pkey_to_wire)
           /\ \A id \in module.unrouted_sinks :
                 /\ DHas(module.wire_pkey_to_wire, id)
                 /\ GlobalName(module, id) \in module.wires

\* remove_sink has returned after an add_site: sinks and sources are still
\* pooled, and wire_pkey_to_wire holds more identities than the pools
C28_Witness ==
    /\ op.name = "remove_sink" /\ ~op.raised
    /\ module.sites /= <<>>
    /\ module.unrouted_sinks /= {}
    /\ module.unrouted_sources /= {}
    /\ module.source_bels /= <<>>
    /\ PooledIds(module) /= DKeys(module.wire_pkey_to_wire)

(***************************************************************************)
(* Claims about make_bus, stated on the input list itself                  *)
(***************************************************************************)
BusNames == {WireA, WireB}

DigitVal(d) == Ord(d) - 48

\* the positions of busIn holding the wire n[d]
EntriesOf(n, d) == { i \in 1..Len(busIn) : busIn[i] = BusWire(n, d) }

\* the number of entries of the indexed family n
FamilySize(n) == Cardinality(UNION { EntriesOf(n, d) : d \in Digits })

\* every index 0..k-1 of the family appears exactly once (k = its size)
FamilyComplete(n) ==
    /\ FamilySize(n) > 0
    /\ \A d \in Digits :
          Cardinality(EntriesOf(n, d)) = (IF DigitVal(d) < FamilySize(n) THEN 1 ELSE 0)

\* an entry of busIn that opens a bracket and does not close it
Unclosed(w) == Find(w, "[") /= -1 /\ w[Len(w)] /= "]"

\* the bounds yielded under the name n
YieldedFor(n) == { i \in 1..Len(busOut.out) : busOut.out[i][1] = n }

BusRaisesOnMalformed ==
    (busOut.run /\ \E n \in BusNames : FamilySize(n) > 0 /\ ~FamilyComplete(n))
        => busOut.raised

BusAcceptsWellFormed ==
    (/\ busOut.run
     /\ \A n \in BusNames : FamilySize(n) > 0 => FamilyComplete(n)
     /\ \A i \in 1..Len(busIn) : ~Unclosed(busIn[i]))
        => ~busOut.raised

BusFamilyBound ==
    (busOut.run /\ ~busOut.raised) =>
        \A n \in BusNames : FamilyComplete(n) =>
            /\ Cardinality(YieldedFor(n)) = 1
            /\ \A i \in YieldedFor(n) : busOut.out[i][2] = FamilySize(n) - 1

BusSorted ==
    (busOut.run /\ ~busOut.raised) =>
        \A i \in 1..(Len(busOut.out) - 1) :
            StrLess(busOut.out[i][1], busOut.out[i + 1][1])

C9_MakeBusDoctest ==
    /\ (busOut.run /\ busIn = <<BusWire(WireA, "0"), BusWire(WireA, "1"), WireB>>)
          => busOut.out = << <<WireA, 2>>, <<WireB, NoBound>> >>
    /\ (busOut.run /\ busIn = <<BusWire(WireA, "0"), BusWire(WireA, "1"), BusWire(WireB, "0")>>)
          => busOut.out = << <<WireA, 2>>, <<WireB, 1>> >>
    /\ (busOut.run /\ ~busOut.raised) =>
          \A n \in BusNames : FamilyComplete(n) =>
              \A i \in YieldedFor(n) : busOut.out[i][2] = FamilySize(n)

====
